---- MODULE Spec2Model ----
(***************************************************************************)
(* Model of the mze container: the sqlite backend of the transaction       *)
(* contract (src/src/container/sqlite.rs) with the default helpers of the  *)
(* ContainerTransaction trait (src/src/lib.rs).                            *)
(*                                                                         *)
(* The four tables have no PRIMARY KEY and no UNIQUE constraint, so each   *)
(* table is a bag (multiset) of rows.  Every operation below is one call   *)
(* on an open transaction; statement failures of the backend (prepare or   *)
(* execute returning Err) are not modelled, every statement succeeds.      *)
(***************************************************************************)
EXTENDS Integers, Sequences, FiniteSets, Bags, TLC

VARIABLES
    db,             \* the tables seen by the open transaction
    last,           \* the last call made on the transaction and its result
    recordsPut,     \* history: refs returned by record_put, not record_del'ed since
    linksPut,       \* history: refs returned by link_put, not link_del'ed since
    recordPutMax,   \* history: per id, the highest version record_put returned
    recordsDeleted, \* history: refs for which record_del has returned true
    taPut,          \* history: refs under which a tag or attribute row was written
    taDup,          \* history: refs under which a stored tag or key was written again
    nrCalls,        \* number of calls made on transactions so far
    schema,         \* the tables that exist in the database
    committed,      \* the tables as the last commit left them
    txs,            \* the transactions begun so far, each one's state
    nrLife,         \* number of calls of create, destroy, begin_transaction,
                    \* commit, rollback and drops of a transaction so far
    query,          \* the records-and-links search query being checked
    entity,         \* the record or link the query is checked against
    queryString,    \* the query string given to SearchQuery::new
    contents,       \* the records and links of the container searched
    recordIds,      \* the ids of the records of the unversioned store
    linkIds,        \* the ids of the links of the unversioned store
    allocated,      \* history: the ids the store has allocated itself
    mutex,          \* the worker that holds the mutex of the web state, or 0
    handlers        \* per worker, the request handler it runs and its position

vars == <<db, last, recordsPut, linksPut, recordPutMax, recordsDeleted,
          taPut, taDup, nrCalls, schema, committed, txs, nrLife,
          query, entity, queryString, contents,
          recordIds, linkIds, allocated, mutex, handlers>>

----------------------------------------------------------------------------
(* Bounds of the model *)

\* width of the u64/i64 words of the program, scaled down
WordBits == 4
\* number of calls made on one transaction
MaxCalls == 4
\* highest version a caller names in a reference
MaxVer == 2
\* number of tags_* / attrs_* calls made on one transaction
MaxTagCalls == 4
\* number of container and transaction lifecycle calls
MaxLifeCalls == 6
\* number of record_put calls in a run of the container lifecycle
MaxPuts == 2
\* number of substrings a search query holds, over all its fields
MaxCriteria == 2
\* length of the query strings given to SearchQuery::new
MaxQueryLen == 6
\* width of the u64 of an EntityId, scaled down
IdBits == 14
\* number of put and del calls made on the ids of one container
MaxIdCalls == 4
\* number of HTTP worker threads, scaled down
NrWorkers == 2
\* number of steps the request handlers take
MaxWebSteps == 8

Word == 2 ^ WordBits

----------------------------------------------------------------------------
(* Option and Result values *)

None == <<>>
Some(x) == <<x>>

Ok(v) == [ok |-> TRUE, val |-> v, err |-> "none"]
Err(e) == [ok |-> FALSE, val |-> None, err |-> e]

----------------------------------------------------------------------------
(* Identifiers *)

\* `u as i64`: reinterpret an unsigned word as two's complement
AsI64(u) == IF u >= Word \div 2 THEN u - Word ELSE u
\* `i as u64`
AsU64(i) == i % Word

\* the low and the high half of an entity id
id_lo(id) == id % Word
id_hi(id) == (id \div Word) % Word
EntityId_new(lo, hi) == hi * Word + lo

EntityIdVer(id, ver) == [id |-> id, ver |-> ver]
EntityIdVer_new(lo, hi, ver) == [id |-> EntityId_new(lo, hi), ver |-> ver]

\* the ids the callers use: both halves non-zero, some halves with the top
\* bit set so that `as i64` makes them negative
IdOf(i) == (i * (5 * Word + Word \div 2 + 1)) % (Word * Word)
Ids == {IdOf(1), IdOf(2)}
Vers == 1..MaxVer
EIDVs == {EntityIdVer(id, v) : id \in Ids, v \in Vers}

----------------------------------------------------------------------------
(* Values put by the callers *)

TA(tags, attrs) == [tags |-> tags, attrs |-> attrs]
TA0 == TA({}, {})
TA1 == TA({"a"}, {<<"k", "v">>})
TA2 == TA({"a", "b"}, {<<"k", "w">>})
TAs == {TA0, TA1, TA2}

\* Record.data: absent, empty, non-empty
Datas == {None, Some(<<>>), Some(<<120>>)}
Record(ta, data) == [ta |-> ta, data |-> data]
Records == {Record(TA0, None), Record(TA1, Some(<<>>)),
            Record(TA2, Some(<<120>>))}

\* link endpoints
Refs == {EntityIdVer(id, 1) : id \in Ids}
RefA == EntityIdVer(IdOf(1), 1)
RefB == EntityIdVer(IdOf(2), 1)
Link(ta, from, to) == [ta |-> ta, from |-> from, to |-> to]
Links == {Link(TA1, {}, {}), Link(TA1, {RefA}, {RefB}),
          Link(TA2, {RefA}, {RefA, RefB})}

----------------------------------------------------------------------------
(* Tables *)

\* rows of table tbl that a `WHERE id_lo = ? AND id_hi = ? AND ver = ?`
\* with the parameters of eidv selects
RowsOf(tbl, eidv) ==
    {r \in DOMAIN tbl : /\ r.id_lo = AsI64(id_lo(eidv.id))
                        /\ r.id_hi = AsI64(id_hi(eidv.id))
                        /\ r.ver = AsI64(eidv.ver)}

\* rows that `WHERE id_lo = ? AND id_hi = ?` selects
RowsOfId(tbl, eid) ==
    {r \in DOMAIN tbl : /\ r.id_lo = AsI64(id_lo(eid))
                        /\ r.id_hi = AsI64(id_hi(eid))}

\* variant: one copy of each selected row is deleted
DeleteRows_OneCopy(tbl, eidv) ==
    LET sel == RowsOf(tbl, eidv)
        keep == {r \in DOMAIN tbl : r \notin sel \/ tbl[r] > 1}
    IN [r \in keep |-> IF r \in sel THEN tbl[r] - 1 ELSE tbl[r]]

\* DELETE FROM tbl WHERE id_lo = ? AND id_hi = ? AND ver = ?
DeleteRows(tbl, eidv) ==
    [r \in (DOMAIN tbl) \ RowsOf(tbl, eidv) |-> tbl[r]]

\* number of rows (with multiplicity) among rows
RECURSIVE NrRows(_, _)
NrRows(tbl, rows) ==
    IF rows = {} THEN 0
    ELSE LET r == CHOOSE x \in rows : TRUE
         IN tbl[r] + NrRows(tbl, rows \ {r})

RECURSIVE SetMax(_)
SetMax(S) ==
    LET x == CHOOSE y \in S : TRUE
    IN IF S = {x} THEN x
       ELSE LET m == SetMax(S \ {x}) IN IF x > m THEN x ELSE m

EmptyDb == [tags |-> EmptyBag, attrs |-> EmptyBag,
            records |-> EmptyBag, links |-> EmptyBag]

----------------------------------------------------------------------------
(* Tags and attributes *)

TagRow(eidv, tag) ==
    [id_lo |-> AsI64(id_lo(eidv.id)), id_hi |-> AsI64(id_hi(eidv.id)),
     ver |-> AsI64(eidv.ver), tag |-> tag]

AttrRow(eidv, kv) ==
    [id_lo |-> AsI64(id_lo(eidv.id)), id_hi |-> AsI64(id_hi(eidv.id)),
     ver |-> AsI64(eidv.ver), key |-> kv[1], value |-> kv[2]]

\* variant: a tag seen twice is returned once
tags_get_Dedup(d, eidv) == Ok({r.tag : r \in RowsOf(d.tags, eidv)})

\* SELECT tag FROM tags WHERE ...; a tag seen twice is an integrity error
tags_get(d, eidv) ==
    LET rows == RowsOf(d.tags, eidv)
    IN IF \E r \in rows : d.tags[r] > 1
       THEN Err("DuplicateTagsInContainer")
       ELSE Ok({r.tag : r \in rows})

\* variant: the rows of eidv are replaced
tags_put_Replace(d, eidv, tags) ==
    [d EXCEPT !.tags = DeleteRows(@, eidv)
                         (+) SetToBag({TagRow(eidv, t) : t \in tags})]

\* one INSERT per tag of the set
tags_put(d, eidv, tags) ==
    [d EXCEPT !.tags = @ (+) SetToBag({TagRow(eidv, t) : t \in tags})]

tags_del(d, eidv) == [d EXCEPT !.tags = DeleteRows(@, eidv)]

\* SELECT key, value FROM attrs WHERE ...; a key seen twice is an integrity
\* error, whatever the values
attrs_get(d, eidv) ==
    LET rows == RowsOf(d.attrs, eidv)
    IN IF \E r \in rows : \/ d.attrs[r] > 1
                          \/ \E q \in rows : q # r /\ q.key = r.key
       THEN Err("DuplicateAttrsInContainer")
       ELSE Ok({<<r.key, r.value>> : r \in rows})

\* variant: the rows of eidv are replaced
attrs_put_Replace(d, eidv, attrs) ==
    [d EXCEPT !.attrs = DeleteRows(@, eidv)
                          (+) SetToBag({AttrRow(eidv, kv) : kv \in attrs})]

\* one INSERT per (key, value) of the map
attrs_put(d, eidv, attrs) ==
    [d EXCEPT !.attrs = @ (+) SetToBag({AttrRow(eidv, kv) : kv \in attrs})]

attrs_del(d, eidv) == [d EXCEPT !.attrs = DeleteRows(@, eidv)]

\* tags_get(eid)?, then attributes_get(eid)?
tags_and_attrs_get(d, eidv) ==
    LET t == tags_get(d, eidv)
        a == attrs_get(d, eidv)
    IN IF ~t.ok THEN t
       ELSE IF ~a.ok THEN a
       ELSE Ok(TA(t.val, a.val))

tags_and_attrs_put(d, eidv, ta) ==
    attrs_put(tags_put(d, eidv, ta.tags), eidv, ta.attrs)

\* variant: the attributes are left behind
tags_and_attrs_del_TagsOnly(d, eidv) == tags_del(d, eidv)

tags_and_attrs_del(d, eidv) == attrs_del(tags_del(d, eidv), eidv)

----------------------------------------------------------------------------
(* Records *)

RecordRow(eidv, data) ==
    [id_lo |-> AsI64(id_lo(eidv.id)), id_hi |-> AsI64(id_hi(eidv.id)),
     ver |-> AsI64(eidv.ver), data |-> data]

\* variant: max(ver) without the WHERE clause
record_get_ver_latest_AnyId(d, eid) ==
    LET rows == DOMAIN d.records
    IN IF rows = {} THEN Ok(None)
       ELSE Ok(Some(EntityIdVer(eid, AsU64(SetMax({r.ver : r \in rows})))))

\* SELECT max(ver) FROM records WHERE id_lo = ? AND id_hi = ?
\* max() of no rows is NULL
record_get_ver_latest(d, eid) ==
    LET rows == RowsOfId(d.records, eid)
    IN IF rows = {} THEN Ok(None)
       ELSE Ok(Some(EntityIdVer(eid, AsU64(SetMax({r.ver : r \in rows})))))

\* variant: the latest version is written again
RecordPutEidv_NoIncrement(d, eid) ==
    LET latest == record_get_ver_latest(d, eid).val
    IN EntityIdVer(eid, IF latest = None THEN 1 ELSE latest[1].ver)

\* the reference record_put(eid, ...) writes under: latest + 1, or 1
RecordPutEidv(d, eid) ==
    LET latest == record_get_ver_latest(d, eid).val
    IN EntityIdVer(eid, IF latest = None THEN 1 ELSE latest[1].ver + 1)

\* the tables after record_put(eid, record); it returns Ok(RecordPutEidv)
record_put(d, eid, record) ==
    LET eidv == RecordPutEidv(d, eid)
        d1 == tags_and_attrs_put(d, eidv, record.ta)
    IN [d1 EXCEPT !.records = @ (+) SetToBag({RecordRow(eidv, record.data)})]

\* variant: version 0 is read as the latest version of the id
record_get_ZeroIsLatest(d, eidv) ==
    LET latest == record_get_ver_latest(d, eidv.id).val
        e == IF eidv.ver = 0 /\ latest # None THEN latest[1] ELSE eidv
        rows == RowsOf(d.records, e)
        n == NrRows(d.records, rows)
    IN IF n > 1 THEN Err("TooManyRowsForARecord")
       ELSE IF n = 0 THEN Ok(None)
       ELSE LET row == CHOOSE r \in rows : TRUE
                ta == tags_and_attrs_get(d, e)
            IN IF row.data = None THEN Err("ErrorRetrievingRecordData")
               ELSE IF ~ta.ok THEN ta
               ELSE Ok(Some(Record(ta.val, Some(row.data[1]))))

\* SELECT data FROM records WHERE ...; row.get::<Vec<u8>> of a NULL column
\* is a conversion error
record_get(d, eidv) ==
    LET rows == RowsOf(d.records, eidv)
        n == NrRows(d.records, rows)
    IN IF n > 1 THEN Err("TooManyRowsForARecord")
       ELSE IF n = 0 THEN Ok(None)
       ELSE LET row == CHOOSE r \in rows : TRUE
                ta == tags_and_attrs_get(d, eidv)
            IN IF row.data = None THEN Err("ErrorRetrievingRecordData")
               ELSE IF ~ta.ok THEN ta
               ELSE Ok(Some(Record(ta.val, Some(row.data[1]))))

\* variant: a record that a link row refers to is not deleted
RecordDelRet_Restrict(d, eidv) ==
    /\ NrRows(d.records, RowsOf(d.records, eidv)) > 0
    /\ \A r \in DOMAIN d.links :
          ~(/\ r.r_id_lo = AsI64(id_lo(eidv.id))
            /\ r.r_id_hi = AsI64(id_hi(eidv.id))
            /\ r.r_ver = AsI64(eidv.ver))

\* the value record_del(eidv) returns: nr_deleted > 0
RecordDelRet(d, eidv) == NrRows(d.records, RowsOf(d.records, eidv)) > 0

\* variant: the row of the records table is left behind
record_del_KeepsRow(d, eidv) == tags_and_attrs_del(d, eidv)

\* the tables after record_del(eidv)
record_del(d, eidv) ==
    [tags_and_attrs_del(d, eidv) EXCEPT !.records = DeleteRows(@, eidv)]

\* SELECT DISTINCT id_hi, id_lo FROM records: one EntityId per distinct
\* pair, as a bag of the ids pushed to the result vector
record_get_all_ids(d) ==
    BagOfAll(LAMBDA p : EntityId_new(AsU64(p[2]), AsU64(p[1])),
             SetToBag({<<r.id_hi, r.id_lo>> : r \in DOMAIN d.records}))

----------------------------------------------------------------------------
(* Links *)

\* is_to is a bool bound to an INTEGER column
LinkRow(eidv, is_to, r_eidv) ==
    [id_lo |-> AsI64(id_lo(eidv.id)), id_hi |-> AsI64(id_hi(eidv.id)),
     ver |-> AsI64(eidv.ver), is_to |-> IF is_to THEN 1 ELSE 0,
     r_id_lo |-> AsI64(id_lo(r_eidv.id)), r_id_hi |-> AsI64(id_hi(r_eidv.id)),
     r_ver |-> AsI64(r_eidv.ver)]

\* SELECT max(ver) FROM links WHERE id_lo = ? AND id_hi = ?
link_get_ver_latest(d, eid) ==
    LET rows == RowsOfId(d.links, eid)
    IN IF rows = {} THEN Ok(None)
       ELSE Ok(Some(EntityIdVer(eid, AsU64(SetMax({r.ver : r \in rows})))))

\* variant: a version number is skipped
LinkPutEidv_Skip(d, eid) ==
    LET latest == link_get_ver_latest(d, eid).val
    IN EntityIdVer(eid, IF latest = None THEN 1 ELSE latest[1].ver + 2)

\* the reference link_put(eid, ...) writes under: latest + 1, or 1
LinkPutEidv(d, eid) ==
    LET latest == link_get_ver_latest(d, eid).val
    IN EntityIdVer(eid, IF latest = None THEN 1 ELSE latest[1].ver + 1)

\* the tables after link_put(eid, link): one row per member of from, then
\* one row per member of to; it returns Ok(LinkPutEidv)
link_put(d, eid, link) ==
    LET eidv == LinkPutEidv(d, eid)
        d1 == tags_and_attrs_put(d, eidv, link.ta)
    IN [d1 EXCEPT !.links =
            @ (+) SetToBag({LinkRow(eidv, FALSE, r) : r \in link.from})
              (+) SetToBag({LinkRow(eidv, TRUE, r) : r \in link.to})]

\* SELECT is_to, r_id_lo, r_id_hi, r_ver FROM links WHERE ...; the rows go
\* to `to` or `from` by is_to; always Some(link), also when no row matches
link_get(d, eidv) ==
    LET rows == RowsOf(d.links, eidv)
        ref(r) == EntityIdVer_new(AsU64(r.r_id_lo), AsU64(r.r_id_hi),
                                  AsU64(r.r_ver))
        ta == tags_and_attrs_get(d, eidv)
    IN IF ~ta.ok THEN ta
       ELSE Ok(Some(Link(ta.val,
                         {ref(r) : r \in {x \in rows : x.is_to = 0}},
                         {ref(r) : r \in {x \in rows : x.is_to # 0}})))

\* the value link_del(eidv) returns: nr_deleted > 0
LinkDelRet(d, eidv) == NrRows(d.links, RowsOf(d.links, eidv)) > 0

\* the tables after link_del(eidv)
link_del(d, eidv) ==
    [tags_and_attrs_del(d, eidv) EXCEPT !.links = DeleteRows(@, eidv)]

\* SELECT DISTINCT id_hi, id_lo FROM links
link_get_all_ids(d) ==
    BagOfAll(LAMBDA p : EntityId_new(AsU64(p[2]), AsU64(p[1])),
             SetToBag({<<r.id_hi, r.id_lo>> : r \in DOMAIN d.links}))

----------------------------------------------------------------------------
(* Calls on the open transaction *)

Call(op, id, arg, ret) == [op |-> op, id |-> id, arg |-> arg, ret |-> ret]

\* the tables of the schema
AllTables == {"records", "tags", "attrs", "links"}

\* a transaction is open: calls are made on it
TxOpen == \E i \in DOMAIN txs : txs[i] = "open"

container == <<schema, committed, txs, nrLife>>

\* SearchQueryRecordsAndLinks; the Vec fields are read with all() and any()
\* only, so they are sets here
SearchQueryRecordsAndLinks(tag_s, key_s, value_s, kv_s, text_s) ==
    [tags |-> [tag_substrings |-> tag_s],
     attributes |-> [key_substrings |-> key_s, value_substrings |-> value_s,
                     kv_substrings |-> kv_s],
     text_substrings |-> text_s]
EmptyQuery == SearchQueryRecordsAndLinks({}, {}, {}, {}, {})
NoEntity == [kind |-> "none", val |-> None]

searching == <<query, entity, queryString, contents>>
alloc == <<recordIds, linkIds, allocated>>
web == <<mutex, handlers>>

\* the worker threads of the HTTP server
Workers == 1..NrWorkers

\* a worker that runs no handler
Idle == [pc |-> "idle", handler |-> "none", tx |-> 0, failed |-> FALSE]

\* the variables of the search, of the id allocation and of the web
\* server at rest
InitSearchAlloc ==
    /\ queryString = <<>>
    /\ contents = {}
    /\ recordIds = {}
    /\ linkIds = {}
    /\ allocated = {}
    /\ mutex = 0
    /\ handlers = [w \in Workers |-> Idle]

\* the tags and the attribute keys with a row stored for eidv
StoredTags(d, eidv) == {r.tag : r \in RowsOf(d.tags, eidv)}
StoredKeys(d, eidv) == {r.key : r \in RowsOf(d.attrs, eidv)}
Keys(attrs) == {kv[1] : kv \in attrs}

\* history of the rows written under eidv by a put of ta
TaPutAfter(eidv, ta) ==
    IF ta.tags # {} \/ ta.attrs # {} THEN taPut \cup {eidv} ELSE taPut
TaDupAfter(eidv, ta) ==
    IF \/ StoredTags(db, eidv) \cap ta.tags # {}
       \/ StoredKeys(db, eidv) \cap Keys(ta.attrs) # {}
    THEN taDup \cup {eidv} ELSE taDup

Init ==
    /\ db = EmptyDb
    /\ last = Call("none", 0, None, Ok(None))
    /\ recordsPut = {}
    /\ linksPut = {}
    /\ recordPutMax = [id \in Ids |-> 0]
    /\ recordsDeleted = {}
    /\ taPut = {}
    /\ taDup = {}
    /\ nrCalls = 0
    /\ schema = AllTables
    /\ committed = EmptyDb
    /\ txs = <<"open">>
    /\ nrLife = 0
    /\ query = EmptyQuery
    /\ entity = NoEntity
    /\ InitSearchAlloc

Tx_record_put(eid, record) ==
    LET eidv == RecordPutEidv(db, eid)
    IN /\ nrCalls < MaxCalls /\ TxOpen /\ schema = AllTables
       /\ nrCalls' = nrCalls + 1 /\ UNCHANGED <<container, searching, alloc, web>>
       /\ db' = record_put(db, eid, record)
       /\ last' = Call("record_put", eid, record, Ok(eidv))
       /\ recordsPut' = recordsPut \cup {eidv}
       /\ recordPutMax' = [recordPutMax EXCEPT
                             ![eid] = IF eidv.ver > @ THEN eidv.ver ELSE @]
       /\ taPut' = TaPutAfter(eidv, record.ta)
       /\ taDup' = TaDupAfter(eidv, record.ta)
       /\ UNCHANGED <<linksPut, recordsDeleted>>

Tx_record_del(eidv) ==
    /\ nrCalls < MaxCalls /\ TxOpen /\ schema = AllTables
    /\ nrCalls' = nrCalls + 1 /\ UNCHANGED <<container, searching, alloc, web>>
    /\ db' = record_del(db, eidv)
    /\ last' = Call("record_del", eidv.id, eidv, Ok(RecordDelRet(db, eidv)))
    /\ recordsPut' = recordsPut \ {eidv}
    /\ recordsDeleted' = IF RecordDelRet(db, eidv)
                         THEN recordsDeleted \cup {eidv} ELSE recordsDeleted
    /\ UNCHANGED <<linksPut, recordPutMax, taPut, taDup>>

Tx_link_put(eid, link) ==
    LET eidv == LinkPutEidv(db, eid)
    IN /\ nrCalls < MaxCalls /\ TxOpen /\ schema = AllTables
       /\ nrCalls' = nrCalls + 1 /\ UNCHANGED <<container, searching, alloc, web>>
       /\ db' = link_put(db, eid, link)
       /\ last' = Call("link_put", eid, link, Ok(eidv))
       /\ linksPut' = linksPut \cup {eidv}
       /\ taPut' = TaPutAfter(eidv, link.ta)
       /\ taDup' = TaDupAfter(eidv, link.ta)
       /\ UNCHANGED <<recordsPut, recordPutMax, recordsDeleted>>

Tx_link_del(eidv) ==
    /\ nrCalls < MaxCalls /\ TxOpen /\ schema = AllTables
    /\ nrCalls' = nrCalls + 1 /\ UNCHANGED <<container, searching, alloc, web>>
    /\ db' = link_del(db, eidv)
    /\ last' = Call("link_del", eidv.id, eidv, Ok(LinkDelRet(db, eidv)))
    /\ linksPut' = linksPut \ {eidv}
    /\ UNCHANGED <<recordsPut, recordPutMax, recordsDeleted, taPut, taDup>>

Next ==
    \/ \E eid \in Ids, record \in Records : Tx_record_put(eid, record)
    \/ \E eidv \in EIDVs : Tx_record_del(eidv)
    \/ \E eid \in Ids, link \in Links : Tx_link_put(eid, link)
    \/ \E eidv \in EIDVs : Tx_link_del(eidv)

Spec == Init /\ [][Next]_vars

----------------------------------------------------------------------------
(* Calls of the tag and attribute operations on the open transaction *)

TagSets == SUBSET {"a", "b"}
\* attribute maps: every key at most once
AttrMaps == {{}, {<<"k", "v">>}, {<<"k", "w">>}, {<<"j", "v">>},
             {<<"k", "v">>, <<"j", "v">>}}

history == <<recordsPut, linksPut, recordPutMax, recordsDeleted>>

Tx_tags_put(eidv, tags) ==
    /\ nrCalls < MaxTagCalls /\ TxOpen /\ schema = AllTables
    /\ nrCalls' = nrCalls + 1 /\ UNCHANGED <<container, searching, alloc, web>>
    /\ db' = tags_put(db, eidv, tags)
    /\ last' = Call("tags_put", eidv.id, [eidv |-> eidv, tags |-> tags],
                    Ok(None))
    /\ taPut' = TaPutAfter(eidv, TA(tags, {}))
    /\ taDup' = TaDupAfter(eidv, TA(tags, {}))
    /\ UNCHANGED history

Tx_tags_del(eidv) ==
    /\ nrCalls < MaxTagCalls /\ TxOpen /\ schema = AllTables
    /\ nrCalls' = nrCalls + 1 /\ UNCHANGED <<container, searching, alloc, web>>
    /\ db' = tags_del(db, eidv)
    /\ last' = Call("tags_del", eidv.id, eidv, Ok(None))
    /\ UNCHANGED <<history, taPut, taDup>>

Tx_attrs_put(eidv, attrs) ==
    /\ nrCalls < MaxTagCalls /\ TxOpen /\ schema = AllTables
    /\ nrCalls' = nrCalls + 1 /\ UNCHANGED <<container, searching, alloc, web>>
    /\ db' = attrs_put(db, eidv, attrs)
    /\ last' = Call("attrs_put", eidv.id, [eidv |-> eidv, attrs |-> attrs],
                    Ok(None))
    /\ taPut' = TaPutAfter(eidv, TA({}, attrs))
    /\ taDup' = TaDupAfter(eidv, TA({}, attrs))
    /\ UNCHANGED history

Tx_attrs_del(eidv) ==
    /\ nrCalls < MaxTagCalls /\ TxOpen /\ schema = AllTables
    /\ nrCalls' = nrCalls + 1 /\ UNCHANGED <<container, searching, alloc, web>>
    /\ db' = attrs_del(db, eidv)
    /\ last' = Call("attrs_del", eidv.id, eidv, Ok(None))
    /\ UNCHANGED <<history, taPut, taDup>>

NextTags ==
    \/ \E eidv \in Refs, tags \in TagSets : Tx_tags_put(eidv, tags)
    \/ \E eidv \in Refs : Tx_tags_del(eidv)
    \/ \E eidv \in Refs, attrs \in AttrMaps : Tx_attrs_put(eidv, attrs)
    \/ \E eidv \in Refs : Tx_attrs_del(eidv)

SpecTags == Init /\ [][NextTags]_vars

----------------------------------------------------------------------------
(* The container: schema and transactions *)

\* the statements of create and of destroy, in the order they are executed
Statement(kind, table) == [kind |-> kind, table |-> table]
CreateStatements ==
    <<Statement("CREATE", "records"), Statement("CREATE", "tags"),
      Statement("CREATE", "attrs"), Statement("CREATE", "links")>>
DropStatements ==
    <<Statement("DROP", "links"), Statement("DROP", "attrs"),
      Statement("DROP", "tags"), Statement("DROP", "records")>>

\* the connection outside a transaction: every statement is committed
Conn(ok, sch, tables) == [ok |-> ok, schema |-> sch, tables |-> tables]

\* variant: CREATE TABLE IF NOT EXISTS, DROP TABLE IF EXISTS
conn_execute_IfExists(c, sql) ==
    IF sql.kind = "CREATE"
    THEN IF sql.table \in c.schema THEN c
         ELSE Conn(TRUE, c.schema \cup {sql.table},
                   [c.tables EXCEPT ![sql.table] = EmptyBag])
    ELSE Conn(TRUE, c.schema \ {sql.table},
              [c.tables EXCEPT ![sql.table] = EmptyBag])

\* CREATE TABLE fails when the table exists, DROP TABLE when it does not;
\* a dropped table loses its rows, a created one has none
conn_execute(c, sql) ==
    IF sql.kind = "CREATE"
    THEN IF sql.table \in c.schema THEN Conn(FALSE, c.schema, c.tables)
         ELSE Conn(TRUE, c.schema \cup {sql.table},
                   [c.tables EXCEPT ![sql.table] = EmptyBag])
    ELSE IF sql.table \notin c.schema THEN Conn(FALSE, c.schema, c.tables)
         ELSE Conn(TRUE, c.schema \ {sql.table},
                   [c.tables EXCEPT ![sql.table] = EmptyBag])

\* the statements are executed in order up to the first one that fails
RECURSIVE statements_execute(_, _)
statements_execute(c, statements) ==
    IF statements = <<>> THEN c
    ELSE LET r == conn_execute(c, Head(statements))
         IN IF ~r.ok THEN r
            ELSE statements_execute(r, Tail(statements))

StatementsRet(c) == IF c.ok THEN Ok(None) ELSE Err("FailedToCreateTable")

\* variant: the container is not borrowed by its transaction
NoTransactionAlive_NotBorrowed == TRUE

\* begin_transaction borrows the container mutably for the life of the
\* transaction: no call on the container while a transaction is alive
NoTransactionAlive == ~TxOpen

InitContainer ==
    /\ db = EmptyDb
    /\ last = Call("none", 0, None, Ok(None))
    /\ recordsPut = {}
    /\ linksPut = {}
    /\ recordPutMax = [id \in Ids |-> 0]
    /\ recordsDeleted = {}
    /\ taPut = {}
    /\ taDup = {}
    /\ nrCalls = 0
    /\ schema = {}
    /\ committed = EmptyDb
    /\ txs = <<>>
    /\ nrLife = 0
    /\ query = EmptyQuery
    /\ entity = NoEntity
    /\ InitSearchAlloc

calls == <<recordsPut, linksPut, recordPutMax, recordsDeleted, taPut, taDup,
           nrCalls>>

Container_create ==
    LET c == statements_execute(Conn(TRUE, schema, committed),
                                CreateStatements)
    IN /\ nrLife < MaxLifeCalls /\ NoTransactionAlive
       /\ nrLife' = nrLife + 1
       /\ schema' = c.schema
       /\ committed' = c.tables
       /\ db' = c.tables
       /\ last' = Call("create", 0, None, StatementsRet(c))
       /\ UNCHANGED <<txs, calls, searching, alloc, web>>

Container_destroy ==
    LET c == statements_execute(Conn(TRUE, schema, committed),
                                DropStatements)
    IN /\ nrLife < MaxLifeCalls /\ NoTransactionAlive
       /\ nrLife' = nrLife + 1
       /\ schema' = c.schema
       /\ committed' = c.tables
       /\ db' = c.tables
       /\ last' = Call("destroy", 0, None, StatementsRet(c))
       /\ UNCHANGED <<txs, calls, searching, alloc, web>>

\* the transaction starts from the committed tables
Container_begin_transaction ==
    /\ nrLife < MaxLifeCalls /\ NoTransactionAlive
    /\ nrLife' = nrLife + 1
    /\ txs' = Append(txs, "open")
    /\ db' = committed
    /\ last' = Call("begin_transaction", Len(txs) + 1, None, Ok(None))
    /\ UNCHANGED <<schema, committed, calls, searching, alloc, web>>

\* variant: commit discards what the transaction wrote
Tx_commit_Discards(i) ==
    /\ nrLife < MaxLifeCalls /\ txs[i] = "open"
    /\ nrLife' = nrLife + 1
    /\ txs' = [txs EXCEPT ![i] = "committed"]
    /\ committed' = committed
    /\ last' = Call("commit", i, None, Ok(None))
    /\ UNCHANGED <<db, schema, calls, searching, alloc, web>>

\* tx.commit(): the tables of the transaction become the committed ones
Tx_commit(i) ==
    /\ nrLife < MaxLifeCalls /\ txs[i] = "open"
    /\ nrLife' = nrLife + 1
    /\ txs' = [txs EXCEPT ![i] = "committed"]
    /\ committed' = db
    /\ last' = Call("commit", i, None, Ok(None))
    /\ UNCHANGED <<db, schema, calls, searching, alloc, web>>

Tx_rollback(i) ==
    /\ nrLife < MaxLifeCalls /\ txs[i] = "open"
    /\ nrLife' = nrLife + 1
    /\ txs' = [txs EXCEPT ![i] = "rolledback"]
    /\ db' = committed
    /\ last' = Call("rollback", i, None, Ok(None))
    /\ UNCHANGED <<schema, committed, calls, searching, alloc, web>>

\* variant: a dropped transaction is committed
Tx_drop_Commits(i) ==
    /\ nrLife < MaxLifeCalls /\ txs[i] = "open"
    /\ nrLife' = nrLife + 1
    /\ txs' = [txs EXCEPT ![i] = "dropped"]
    /\ committed' = db
    /\ last' = Call("drop", i, None, Ok(None))
    /\ UNCHANGED <<db, schema, calls, searching, alloc, web>>

\* the transaction goes out of scope without commit or rollback: the
\* handle is dropped, which rolls back what it wrote
Tx_drop(i) ==
    /\ nrLife < MaxLifeCalls /\ txs[i] = "open"
    /\ nrLife' = nrLife + 1
    /\ txs' = [txs EXCEPT ![i] = "dropped"]
    /\ db' = committed
    /\ last' = Call("drop", i, None, Ok(None))
    /\ UNCHANGED <<schema, committed, calls, searching, alloc, web>>

\* record_put on a transaction of a container without tables: the first
\* statement cannot be prepared
Tx_record_put_NoTable(eid, record) ==
    /\ nrCalls < MaxPuts /\ TxOpen /\ "records" \notin schema
    /\ nrCalls' = nrCalls + 1
    /\ last' = Call("record_put", eid, record,
                    Err("SqliteConnPrepareFailed"))
    /\ UNCHANGED <<db, container, searching, alloc, web, recordsPut, linksPut,
                   recordPutMax, recordsDeleted, taPut, taDup>>

NextContainer ==
    \/ Container_create
    \/ Container_destroy
    \/ Container_begin_transaction
    \/ \E i \in DOMAIN txs : Tx_commit(i)
    \/ \E i \in DOMAIN txs : Tx_rollback(i)
    \/ \E i \in DOMAIN txs : Tx_drop(i)
    \/ \E eid \in Ids, record \in Records :
          nrCalls < MaxPuts /\ Tx_record_put(eid, record)
    \/ \E eidv \in EIDVs : nrCalls < MaxPuts /\ Tx_record_del(eidv)
    \/ \E eid \in Ids, link \in Links :
          nrCalls < MaxPuts /\ Tx_link_put(eid, link)
    \/ \E eid \in Ids, record \in Records :
          Tx_record_put_NoTable(eid, record)

SpecContainer == InitContainer /\ [][NextContainer]_vars

----------------------------------------------------------------------------
(* Search queries over records and links *)

\* strings are sequences of bytes; str::contains: p occurs in s
Contains(s, p) ==
    \E i \in 0..(Len(s) - Len(p)) : SubSeq(s, i + 1, i + Len(p)) = p

\* std::str::from_utf8 succeeds: the bytes are well-formed UTF-8
IsCont(b) == b \in 128..191
RECURSIVE Utf8Valid(_)
Utf8Valid(b) ==
    IF b = <<>> THEN TRUE
    ELSE LET n == Len(b)
             b1 == b[1]
         IN IF b1 < 128 THEN Utf8Valid(Tail(b))
            ELSE IF b1 \in 194..223
            THEN /\ n >= 2 /\ IsCont(b[2])
                 /\ Utf8Valid(SubSeq(b, 3, n))
            ELSE IF b1 \in 224..239
            THEN /\ n >= 3
                 /\ IF b1 = 224 THEN b[2] \in 160..191
                    ELSE IF b1 = 237 THEN b[2] \in 128..159
                    ELSE IsCont(b[2])
                 /\ IsCont(b[3])
                 /\ Utf8Valid(SubSeq(b, 4, n))
            ELSE IF b1 \in 240..244
            THEN /\ n >= 4
                 /\ IF b1 = 240 THEN b[2] \in 144..191
                    ELSE IF b1 = 244 THEN b[2] \in 128..143
                    ELSE IsCont(b[2])
                 /\ IsCont(b[3]) /\ IsCont(b[4])
                 /\ Utf8Valid(SubSeq(b, 5, n))
            ELSE FALSE

\* variant: any() over the substrings in place of all()
check_tags_Any(q, tags) ==
    \E t \in q.tag_substrings : \E tag \in tags : Contains(tag, t)

check_tags(q, tags) ==
    \A t \in q.tag_substrings : \E tag \in tags : Contains(tag, t)

check_attributes(q, attributes) ==
    /\ \A kv \in q.kv_substrings :
          \E a \in attributes : Contains(a[1], kv[1]) /\ Contains(a[2], kv[2])
    /\ \A k \in q.key_substrings : \E a \in attributes : Contains(a[1], k)
    /\ \A v \in q.value_substrings : \E a \in attributes : Contains(a[2], v)

check_tags_and_attributes(q, ta) ==
    check_tags(q.tags, ta.tags) /\ check_attributes(q.attributes, ta.attrs)

check_record(q, record) ==
    /\ check_tags_and_attributes(q, record.ta)
    /\ \/ q.text_substrings = {}
       \/ record.data = None
       \/ IF Utf8Valid(record.data[1])
          THEN \E s \in q.text_substrings : Contains(record.data[1], s)
          ELSE TRUE

check_link(q, link) == check_tags_and_attributes(q, link.ta)

\* the substrings of the queries: empty, one letter, two letters
Str_a == <<97>>
Str_b == <<98>>
Str_ab == <<97, 98>>
Str_ba == <<98, 97>>
Filters == {<<>>, Str_a, Str_b, Str_ab}
KvFilters == {<<(<<>>), (<<>>)>>, <<Str_a, Str_b>>, <<Str_a, <<>> >>,
              <<Str_b, Str_a>>}
\* one substring of one field of a query; only kv uses the second string
Criteria ==
    {[field |-> f, s |-> <<s, <<>> >>] :
        f \in {"tag", "key", "value", "text"}, s \in Filters}
    \cup {[field |-> "kv", s |-> kv] : kv \in KvFilters}

\* the subsets of S with at most k elements
RECURSIVE SubsetsUpTo(_, _)
SubsetsUpTo(S, k) ==
    IF k = 0 THEN {{}}
    ELSE LET P == SubsetsUpTo(S, k - 1)
         IN P \cup {p \cup {x} : p \in P, x \in S}

QueryOf(cs) ==
    LET F(f) == {c.s[1] : c \in {x \in cs : x.field = f}}
        KV == {c.s : c \in {x \in cs : x.field = "kv"}}
    IN SearchQueryRecordsAndLinks(F("tag"), F("key"), F("value"), KV,
                                  F("text"))
Queries == {QueryOf(cs) : cs \in SubsetsUpTo(Criteria, MaxCriteria)}

\* the records and links checked: tags and attributes as strings of bytes;
\* payloads absent, empty, text, ill-formed UTF-8 and a two-byte character
SearchTAs ==
    {TA(tags, attrs) :
        tags \in {{}, {Str_a}, {Str_ab}, {Str_a, Str_b}},
        attrs \in {{}, {<<Str_a, Str_b>>}, {<<Str_ab, Str_b>>},
                   {<<Str_a, Str_a>>, <<Str_b, Str_b>>}}}
SearchDatas ==
    {None, Some(<<>>), Some(Str_a), Some(Str_ab), Some(Str_ba),
     Some(<<255>>), Some(<<97, 195>>), Some(<<195, 169>>)}
SearchEntities ==
    {[kind |-> "record", val |-> Record(ta, data)] :
        ta \in SearchTAs, data \in SearchDatas}
    \cup {[kind |-> "link", val |-> Link(ta, {}, {RefA})] : ta \in SearchTAs}

InitSearch ==
    /\ db = EmptyDb
    /\ last = Call("none", 0, None, Ok(None))
    /\ recordsPut = {}
    /\ linksPut = {}
    /\ recordPutMax = [id \in Ids |-> 0]
    /\ recordsDeleted = {}
    /\ taPut = {}
    /\ taDup = {}
    /\ nrCalls = 0
    /\ schema = AllTables
    /\ committed = EmptyDb
    /\ txs = <<>>
    /\ nrLife = 0
    /\ query \in Queries
    /\ entity \in SearchEntities
    /\ InitSearchAlloc

Check_record ==
    /\ last.op = "none" /\ entity.kind = "record"
    /\ last' = Call("check_record", 0, None,
                    Ok(check_record(query, entity.val)))
    /\ UNCHANGED <<db, calls, container, searching, alloc, web>>

Check_link ==
    /\ last.op = "none" /\ entity.kind = "link"
    /\ last' = Call("check_link", 0, None, Ok(check_link(query, entity.val)))
    /\ UNCHANGED <<db, calls, container, searching, alloc, web>>

NextSearch == Check_record \/ Check_link

SpecSearch == InitSearch /\ [][NextSearch]_vars

----------------------------------------------------------------------------
(* SearchQuery::new: from the query string to the query *)

\* the characters the parser looks for
Space == 32
Hash == 35
Equals == 61

\* char::is_whitespace: the characters with the White_Space property
IsWhitespace(c) ==
    c \in {9, 10, 11, 12, 13, 32, 133, 160, 5760, 8232, 8233, 8239, 8287,
           12288} \cup 8192..8202

\* str::split_whitespace: the maximal runs of characters that are not
\* whitespace, in order; never an empty word
RECURSIVE split_whitespace(_)
split_whitespace(s) ==
    IF s = <<>> THEN <<>>
    ELSE IF IsWhitespace(s[1]) THEN split_whitespace(Tail(s))
    ELSE LET end == CHOOSE i \in 2..(Len(s) + 1) :
                       /\ i = Len(s) + 1 \/ IsWhitespace(s[i])
                       /\ \A j \in 2..(i - 1) : ~IsWhitespace(s[j])
         IN <<SubSeq(s, 1, end - 1)>>
              \o split_whitespace(SubSeq(s, end, Len(s)))

\* words.contains(&word)
WordsContain(words, word) == \E i \in DOMAIN words : words[i] = word

\* word.strip_prefix("#")
strip_prefix(word) ==
    IF word # <<>> /\ word[1] = Hash THEN Some(Tail(word)) ELSE None

\* word.find("="): the index, from 0, of the first "="
find(word) ==
    IF \E i \in DOMAIN word : word[i] = Equals
    THEN Some((CHOOSE i \in DOMAIN word :
                 /\ word[i] = Equals
                 /\ \A j \in 1..(i - 1) : word[j] # Equals) - 1)
    ELSE None

\* the query built so far; panic is set by a failed assert!
SearchQuery(form, tag_s, key_s, value_s, kv_s, text_s) ==
    [form |-> form, panic |-> FALSE, tag_substrings |-> tag_s,
     key_substrings |-> key_s, value_substrings |-> value_s,
     kv_substrings |-> kv_s, text_substrings |-> text_s]

\* variant: the key and the value stand for each other
PushAttribute_Swapped(acc, word, equals_pos) ==
    LET k == SubSeq(word, equals_pos + 2, Len(word))
        v == SubSeq(word, 1, equals_pos)
    IN IF equals_pos + 1 > Len(word) THEN [acc EXCEPT !.panic = TRUE]
       ELSE IF v = <<>>
       THEN IF k = <<>> THEN [acc EXCEPT !.panic = TRUE]
            ELSE [acc EXCEPT !.key_substrings = Append(@, k)]
       ELSE IF k = <<>>
       THEN [acc EXCEPT !.value_substrings = Append(@, v)]
       ELSE [acc EXCEPT !.kv_substrings = Append(@, <<k, v>>)]

\* a word with "=" at equals_pos: split on it into key, value or kv; a
\* slice that starts beyond the end of the word and a failed assert! panic
PushAttribute(acc, word, equals_pos) ==
    LET k == SubSeq(word, 1, equals_pos)
        v == SubSeq(word, equals_pos + 2, Len(word))
    IN IF equals_pos + 1 > Len(word) THEN [acc EXCEPT !.panic = TRUE]
       ELSE IF v = <<>>
       THEN IF k = <<>> THEN [acc EXCEPT !.panic = TRUE]
            ELSE [acc EXCEPT !.key_substrings = Append(@, k)]
       ELSE IF k = <<>>
       THEN [acc EXCEPT !.value_substrings = Append(@, v)]
       ELSE [acc EXCEPT !.kv_substrings = Append(@, <<k, v>>)]

\* variant: every leading "#" is removed
TagsWord_StripAll(word) ==
    LET first == CHOOSE i \in 1..(Len(word) + 1) :
                    /\ i = Len(word) + 1 \/ word[i] # Hash
                    /\ \A j \in 1..(i - 1) : word[j] = Hash
    IN IF word = <<>> \/ word = <<Hash>> THEN None
       ELSE Some(SubSeq(word, first, Len(word)))

\* the closure of the filter_map of the tags query
TagsWord(word) ==
    LET stripped == strip_prefix(word)
    IN IF word = <<>> \/ word = <<Hash>> THEN None
       ELSE Some(IF stripped # None THEN stripped[1] ELSE word)

\* the filter_map of the tags query
RECURSIVE TagsWords(_)
TagsWords(words) ==
    IF words = <<>> THEN <<>>
    ELSE TagsWord(Head(words)) \o TagsWords(Tail(words))

\* variant: the word "=" is not skipped
AttributesWord_KeepsEquals(acc, w) ==
    LET stripped == strip_prefix(w)
        word == IF stripped # None THEN stripped[1] ELSE w
        equals_pos == find(word)
    IN IF word = <<>> THEN acc
       ELSE IF equals_pos # None
       THEN PushAttribute(acc, word, equals_pos[1])
       ELSE [acc EXCEPT !.key_substrings = Append(@, word),
                        !.value_substrings = Append(@, word)]

\* the body of the loop of the attributes query
AttributesWord(acc, w) ==
    LET stripped == strip_prefix(w)
        word == IF stripped # None THEN stripped[1] ELSE w
        equals_pos == find(word)
    IN IF word = <<>> \/ word = <<Equals>> THEN acc
       ELSE IF equals_pos # None
       THEN PushAttribute(acc, word, equals_pos[1])
       ELSE [acc EXCEPT !.key_substrings = Append(@, word),
                        !.value_substrings = Append(@, word)]

\* the loop of the attributes query
RECURSIVE AttributesWords(_, _)
AttributesWords(words, acc) ==
    IF words = <<>> \/ acc.panic THEN acc
    ELSE AttributesWords(Tail(words), AttributesWord(acc, Head(words)))

\* variant: a word with "=" that has no "#" is an attribute filter too
RecordsAndLinksWord_AnyEquals(acc, word) ==
    LET stripped == strip_prefix(word)
        body == IF stripped # None THEN stripped[1] ELSE word
        equals_pos == find(body)
    IN IF word = <<>> \/ word = <<Hash>> \/ word = <<Hash, Equals>>
       THEN [acc EXCEPT !.panic = TRUE]
       ELSE IF equals_pos # None
       THEN PushAttribute(acc, body, equals_pos[1])
       ELSE IF stripped # None
       THEN [acc EXCEPT !.tag_substrings = Append(@, body)]
       ELSE [acc EXCEPT !.text_substrings = Append(@, word)]

\* the body of the loop of the records-and-links query
RecordsAndLinksWord(acc, word) ==
    LET stripped == strip_prefix(word)
    IN IF word = <<>> \/ word = <<Hash>> \/ word = <<Hash, Equals>>
       THEN [acc EXCEPT !.panic = TRUE]
       ELSE IF stripped # None
       THEN LET equals_pos == find(stripped[1])
            IN IF equals_pos # None
               THEN PushAttribute(acc, stripped[1], equals_pos[1])
               ELSE [acc EXCEPT !.tag_substrings = Append(@, stripped[1])]
       ELSE [acc EXCEPT !.text_substrings = Append(@, word)]

\* the loop of the records-and-links query
RECURSIVE RecordsAndLinksWords(_, _)
RecordsAndLinksWords(words, acc) ==
    IF words = <<>> \/ acc.panic THEN acc
    ELSE RecordsAndLinksWords(Tail(words),
                              RecordsAndLinksWord(acc, Head(words)))

\* variant: the "#=" token is looked for first
SearchQuery_new_AttributesFirst(q) ==
    LET words == split_whitespace(q)
        none == <<>>
    IN IF WordsContain(words, <<Hash, Equals>>)
       THEN AttributesWords(words,
               SearchQuery("Attributes", none, none, none, none, none))
       ELSE IF WordsContain(words, <<Hash>>)
       THEN SearchQuery("Tags", TagsWords(words), none, none, none, none)
       ELSE RecordsAndLinksWords(words,
               SearchQuery("RecordsAndLinks", none, none, none, none, none))

SearchQuery_new(q) ==
    LET words == split_whitespace(q)
        none == <<>>
    IN IF WordsContain(words, <<Hash>>)
       THEN SearchQuery("Tags", TagsWords(words), none, none, none, none)
       ELSE IF WordsContain(words, <<Hash, Equals>>)
       THEN AttributesWords(words,
               SearchQuery("Attributes", none, none, none, none, none))
       ELSE RecordsAndLinksWords(words,
               SearchQuery("RecordsAndLinks", none, none, none, none, none))

\* the query strings: space, "#", "=" and two letters
QueryChars == {Space, Hash, Equals, 97, 98}
QueryStrings ==
    UNION {[1..n -> QueryChars] : n \in 0..MaxQueryLen}

InitParse ==
    /\ db = EmptyDb
    /\ last = Call("none", 0, None, Ok(None))
    /\ recordsPut = {}
    /\ linksPut = {}
    /\ recordPutMax = [id \in Ids |-> 0]
    /\ recordsDeleted = {}
    /\ taPut = {}
    /\ taDup = {}
    /\ nrCalls = 0
    /\ schema = AllTables
    /\ committed = EmptyDb
    /\ txs = <<>>
    /\ nrLife = 0
    /\ query = EmptyQuery
    /\ entity = NoEntity
    /\ queryString \in QueryStrings
    /\ contents = {}
    /\ recordIds = {}
    /\ linkIds = {}
    /\ allocated = {}
    /\ mutex = 0
    /\ handlers = [w \in Workers |-> Idle]

Parse ==
    /\ last.op = "none"
    /\ last' = Call("SearchQuery_new", 0, None,
                    Ok(SearchQuery_new(queryString)))
    /\ UNCHANGED <<db, calls, container, searching, alloc, web>>

NextParse == Parse

SpecParse == InitParse /\ [][NextParse]_vars

----------------------------------------------------------------------------
(* ContainerTransaction::search: a query applied to the container *)

\* the elements of a Vec
Range(seq) == {seq[i] : i \in DOMAIN seq}

SearchQueryTags_is_empty(q) == q.tag_substrings = <<>>

\* variant: all() over the substrings in place of any()
SearchQueryTags_check_All(q, tag) ==
    \A i \in DOMAIN q.tag_substrings : Contains(tag, q.tag_substrings[i])

SearchQueryTags_check(q, tag) ==
    \E i \in DOMAIN q.tag_substrings : Contains(tag, q.tag_substrings[i])

SearchQueryAttributes_is_empty(q) ==
    /\ q.key_substrings = <<>>
    /\ q.value_substrings = <<>>
    /\ q.kv_substrings = <<>>

\* variant: a kv filter needs the key or the value only
SearchQueryAttributes_check_KeyOrValue(q, key, value) ==
    \/ \E i \in DOMAIN q.kv_substrings :
          \/ Contains(key, q.kv_substrings[i][1])
          \/ Contains(value, q.kv_substrings[i][2])
    \/ \E i \in DOMAIN q.key_substrings : Contains(key, q.key_substrings[i])
    \/ \E i \in DOMAIN q.value_substrings :
          Contains(value, q.value_substrings[i])

SearchQueryAttributes_check(q, key, value) ==
    \/ \E i \in DOMAIN q.kv_substrings :
          /\ Contains(key, q.kv_substrings[i][1])
          /\ Contains(value, q.kv_substrings[i][2])
    \/ \E i \in DOMAIN q.key_substrings : Contains(key, q.key_substrings[i])
    \/ \E i \in DOMAIN q.value_substrings :
          Contains(value, q.value_substrings[i])

\* variant: the text substrings are not looked at
SearchQueryRecordsAndLinks_is_empty_NoText(q) ==
    /\ SearchQueryTags_is_empty(q)
    /\ SearchQueryAttributes_is_empty(q)
    /\ q.text_substrings # <<>>

SearchQueryRecordsAndLinks_is_empty(q) ==
    /\ SearchQueryTags_is_empty(q)
    /\ SearchQueryAttributes_is_empty(q)
    /\ q.text_substrings = <<>>

\* the SearchQueryRecordsAndLinks of a parsed records-and-links query
RecordsAndLinksOf(q) ==
    SearchQueryRecordsAndLinks(Range(q.tag_substrings),
                               Range(q.key_substrings),
                               Range(q.value_substrings),
                               Range(q.kv_substrings),
                               Range(q.text_substrings))

SearchResultRecord(record_id) == [kind |-> "Record", id |-> record_id]
SearchResultLink(link_id) == [kind |-> "Link", id |-> link_id]
SearchResultTag(tag) == [kind |-> "Tag", tag |-> tag]
SearchResultAttribute(key, value) ==
    [kind |-> "Attribute", key |-> key, value |-> value]

\* the tags and the attribute pairs of the entities of the container
ContainerTags(c) == UNION {e.val.ta.tags : e \in c}
ContainerAttributes(c) == UNION {e.val.ta.attrs : e \in c}

\* search: the tags, the attribute pairs, or the records and links that the
\* query selects; an empty records-and-links query selects nothing
search(q, c) ==
    IF q.form = "Tags"
    THEN {SearchResultTag(tag) :
            tag \in {t \in ContainerTags(c) :
                        \/ SearchQueryTags_is_empty(q)
                        \/ SearchQueryTags_check(q, t)}}
    ELSE IF q.form = "Attributes"
    THEN {SearchResultAttribute(a[1], a[2]) :
            a \in {kv \in ContainerAttributes(c) :
                      \/ SearchQueryAttributes_is_empty(q)
                      \/ SearchQueryAttributes_check(q, kv[1], kv[2])}}
    ELSE IF SearchQueryRecordsAndLinks_is_empty(q) THEN {}
    ELSE {SearchResultRecord(e.id) :
            e \in {x \in c : /\ x.kind = "record"
                             /\ check_record(RecordsAndLinksOf(q), x.val)}}
         \cup
         {SearchResultLink(e.id) :
            e \in {x \in c : /\ x.kind = "link"
                             /\ check_link(RecordsAndLinksOf(q), x.val)}}

\* the entities a container may hold: two records and a link
Stored(kind, id, val) == [kind |-> kind, id |-> id, val |-> val]
ContentEntities ==
    {Stored("record", 1,
            Record(TA({Str_a, Str_ab}, {<<Str_a, Str_b>>}), Some(Str_a))),
     Stored("record", 2, Record(TA({Str_b}, {<<Str_a, Str_a>>}), None)),
     Stored("link", 3,
            Link(TA({Str_ab}, {<<Str_b, Str_ab>>}), {}, {RefA}))}

InitSearchAll ==
    /\ db = EmptyDb
    /\ last = Call("none", 0, None, Ok(None))
    /\ recordsPut = {}
    /\ linksPut = {}
    /\ recordPutMax = [id \in Ids |-> 0]
    /\ recordsDeleted = {}
    /\ taPut = {}
    /\ taDup = {}
    /\ nrCalls = 0
    /\ schema = AllTables
    /\ committed = EmptyDb
    /\ txs = <<"open">>
    /\ nrLife = 0
    /\ query = EmptyQuery
    /\ entity = NoEntity
    /\ queryString \in QueryStrings
    /\ contents \in SUBSET ContentEntities
    /\ recordIds = {}
    /\ linkIds = {}
    /\ allocated = {}
    /\ mutex = 0
    /\ handlers = [w \in Workers |-> Idle]

\* the search handler: the query string is parsed, the query is run
Tx_search ==
    /\ last.op = "none"
    /\ last' = Call("search", 0, SearchQuery_new(queryString),
                    Ok(search(SearchQuery_new(queryString),
                                      contents)))
    /\ UNCHANGED <<db, calls, container, searching, alloc, web>>

NextSearchAll == Tx_search

SpecSearchAll == InitSearchAll /\ [][NextSearchAll]_vars

----------------------------------------------------------------------------
(* Ids of the entities put without an id *)

\* Start from this EntityId by default
ENTITY_ID_START == 10000

IdWord == 2 ^ IdBits

\* variant: the id is not incremented
add_1_Same(id) == id % IdWord

\* EntityId::add_1, on the u64 of the id
add_1(id) == (id + 1) % IdWord

\* the id given to an entity put without one: one more than the highest id
\* of the records and the links, the start id in a container without any
new_id(records, links) ==
    IF records \cup links = {} THEN ENTITY_ID_START
    ELSE add_1(SetMax(records \cup links))

\* the ids a caller names
NamedIds == {7, ENTITY_ID_START + 2}

InitIds ==
    /\ db = EmptyDb
    /\ last = Call("none", 0, None, Ok(None))
    /\ recordsPut = {}
    /\ linksPut = {}
    /\ recordPutMax = [id \in Ids |-> 0]
    /\ recordsDeleted = {}
    /\ taPut = {}
    /\ taDup = {}
    /\ nrCalls = 0
    /\ schema = AllTables
    /\ committed = EmptyDb
    /\ txs = <<"open">>
    /\ nrLife = 0
    /\ query = EmptyQuery
    /\ entity = NoEntity
    /\ InitSearchAlloc

\* record_put(&Option<EntityId>, ..) -> EntityId
Id_record_put(eid) ==
    LET id == IF eid = None THEN new_id(recordIds, linkIds) ELSE eid[1]
    IN /\ nrCalls < MaxIdCalls
       /\ nrCalls' = nrCalls + 1
       /\ recordIds' = recordIds \cup {id}
       /\ allocated' = IF eid = None THEN allocated \cup {id} ELSE allocated
       /\ last' = Call("record_put", id, eid, Ok(id))
       /\ UNCHANGED <<db, container, searching, web, linkIds, history, taPut,
                      taDup>>

\* link_put(&Option<EntityId>, ..) -> EntityId
Id_link_put(eid) ==
    LET id == IF eid = None THEN new_id(recordIds, linkIds) ELSE eid[1]
    IN /\ nrCalls < MaxIdCalls
       /\ nrCalls' = nrCalls + 1
       /\ linkIds' = linkIds \cup {id}
       /\ allocated' = IF eid = None THEN allocated \cup {id} ELSE allocated
       /\ last' = Call("link_put", id, eid, Ok(id))
       /\ UNCHANGED <<db, container, searching, web, recordIds, history, taPut,
                      taDup>>

\* record_del(&EntityId) -> bool
Id_record_del(id) ==
    /\ nrCalls < MaxIdCalls
    /\ nrCalls' = nrCalls + 1
    /\ recordIds' = recordIds \ {id}
    /\ last' = Call("record_del", id, id, Ok(id \in recordIds))
    /\ UNCHANGED <<db, container, searching, web, linkIds, allocated, history,
                   taPut, taDup>>

\* link_del(&EntityId) -> bool
Id_link_del(id) ==
    /\ nrCalls < MaxIdCalls
    /\ nrCalls' = nrCalls + 1
    /\ linkIds' = linkIds \ {id}
    /\ last' = Call("link_del", id, id, Ok(id \in linkIds))
    /\ UNCHANGED <<db, container, searching, web, recordIds, allocated, history,
                   taPut, taDup>>

NextIds ==
    \/ \E eid \in {None} \cup {Some(id) : id \in NamedIds} : Id_record_put(eid)
    \/ \E eid \in {None} \cup {Some(id) : id \in NamedIds} : Id_link_put(eid)
    \/ \E id \in recordIds : Id_record_del(id)
    \/ \E id \in linkIds : Id_link_del(id)

SpecIds == InitIds /\ [][NextIds]_vars

----------------------------------------------------------------------------
(* The request handlers of the web renderer *)

\* the handlers modelled: one that writes and commits, one that reads
Handlers == {"put_record", "get_record"}

\* variant: the lock is taken without waiting for its holder
MutexAvailable_NoWait == TRUE

\* state_data.lock(): blocks while another worker holds the guard
MutexAvailable == mutex = 0

InitWeb ==
    /\ db = EmptyDb
    /\ last = Call("none", 0, None, Ok(None))
    /\ recordsPut = {}
    /\ linksPut = {}
    /\ recordPutMax = [id \in Ids |-> 0]
    /\ recordsDeleted = {}
    /\ taPut = {}
    /\ taDup = {}
    /\ nrCalls = 0
    /\ schema \in {AllTables, {}}
    /\ committed = EmptyDb
    /\ txs = <<>>
    /\ nrLife = 0
    /\ query = EmptyQuery
    /\ entity = NoEntity
    /\ InitSearchAlloc

\* let mut state = state_data.lock().unwrap();
Web_lock(w, h) ==
    /\ nrLife < MaxWebSteps
    /\ handlers[w].pc = "idle" /\ MutexAvailable
    /\ nrLife' = nrLife + 1
    /\ mutex' = w
    /\ handlers' = [handlers EXCEPT ![w] = [Idle EXCEPT !.pc = "locked",
                                                         !.handler = h]]
    /\ last' = Call("lock", 0, w, Ok(None))
    /\ UNCHANGED <<db, schema, committed, txs, calls, searching, alloc>>

\* state.container.begin_transaction()?: the transaction starts from the
\* committed tables
Web_begin_transaction(w) ==
    /\ nrLife < MaxWebSteps
    /\ handlers[w].pc = "locked"
    /\ nrLife' = nrLife + 1
    /\ txs' = Append(txs, "open")
    /\ db' = committed
    /\ handlers' = [handlers EXCEPT ![w].pc = "tx", ![w].tx = Len(txs) + 1]
    /\ last' = Call("begin_transaction", Len(txs) + 1, w, Ok(None))
    /\ UNCHANGED <<mutex, schema, committed, calls, searching, alloc>>

\* begin_transaction returns Err and `?` returns it: no transaction exists,
\* the guard is what is left to drop
Web_begin_transaction_fails(w) ==
    /\ nrLife < MaxWebSteps
    /\ handlers[w].pc = "locked"
    /\ nrLife' = nrLife + 1
    /\ handlers' = [handlers EXCEPT ![w].pc = "done"]
    /\ last' = Call("begin_transaction", 0, w, Err("SqliteTransactionFailed"))
    /\ UNCHANGED <<db, mutex, schema, committed, txs, calls, searching, alloc>>

\* put_record: tx.record_put(&eid, &record) returns Ok, the loop goes on
Web_record_put(w, eid, record) ==
    /\ nrLife < MaxWebSteps
    /\ handlers[w].pc = "tx" /\ handlers[w].handler = "put_record"
    /\ nrCalls < MaxPuts
    /\ Tx_record_put(eid, record)

\* put_record: tx.record_put returns Err, which becomes an entry of the
\* response; the loop goes on
Web_record_put_fails(w, eid, record) ==
    /\ nrLife < MaxWebSteps
    /\ handlers[w].pc = "tx" /\ handlers[w].handler = "put_record"
    /\ nrCalls < MaxPuts /\ "records" \notin schema
    /\ nrCalls' = nrCalls + 1
    /\ handlers' = [handlers EXCEPT ![w].failed = TRUE]
    /\ last' = Call("record_put", eid, record,
                    Err("SqliteConnPrepareFailed"))
    /\ UNCHANGED <<db, mutex, container, searching, alloc, recordsPut,
                   linksPut, recordPutMax, recordsDeleted, taPut, taDup>>

\* put_record: tx.commit()? after the loop
Web_commit(w) ==
    /\ nrLife < MaxWebSteps
    /\ handlers[w].pc = "tx" /\ handlers[w].handler = "put_record"
    /\ nrLife' = nrLife + 1
    /\ txs' = [txs EXCEPT ![handlers[w].tx] = "committed"]
    /\ committed' = db
    /\ handlers' = [handlers EXCEPT ![w].pc = "done"]
    /\ last' = Call("commit", handlers[w].tx, w, Ok(None))
    /\ UNCHANGED <<db, mutex, schema, calls, searching, alloc>>

\* get_record: the handler returns, with Ok or through `?`, and tx goes out
\* of scope: it is dropped, which rolls back, before the guard is
Web_drop(w) ==
    /\ nrLife < MaxWebSteps
    /\ handlers[w].pc = "tx" /\ handlers[w].handler = "get_record"
    /\ nrLife' = nrLife + 1
    /\ txs' = [txs EXCEPT ![handlers[w].tx] = "dropped"]
    /\ db' = committed
    /\ handlers' = [handlers EXCEPT ![w].pc = "done"]
    /\ last' = Call("drop", handlers[w].tx, w, Ok(None))
    /\ UNCHANGED <<mutex, schema, committed, calls, searching, alloc>>

\* the guard `state` goes out of scope last: the mutex is released
Web_unlock(w) ==
    /\ nrLife < MaxWebSteps
    /\ handlers[w].pc = "done"
    /\ nrLife' = nrLife + 1
    /\ mutex' = IF mutex = w THEN 0 ELSE mutex
    /\ handlers' = [handlers EXCEPT ![w] = Idle]
    /\ last' = Call("unlock", 0, w, Ok(None))
    /\ UNCHANGED <<db, schema, committed, txs, calls, searching, alloc>>

NextWeb ==
    \/ \E w \in Workers, h \in Handlers : Web_lock(w, h)
    \/ \E w \in Workers : Web_begin_transaction(w)
    \/ \E w \in Workers : Web_begin_transaction_fails(w)
    \/ \E w \in Workers, eid \in Ids, record \in Records :
          Web_record_put(w, eid, record)
    \/ \E w \in Workers, eid \in Ids, record \in Records :
          Web_record_put_fails(w, eid, record)
    \/ \E w \in Workers : Web_commit(w)
    \/ \E w \in Workers : Web_drop(w)
    \/ \E w \in Workers : Web_unlock(w)

SpecWeb == InitWeb /\ [][NextWeb]_vars

----------------------------------------------------------------------------
(* Vocabulary of the properties *)

\* versions of eid with a row in the records table / in the links table
StoredRecordVers(d, eid) == {AsU64(r.ver) : r \in RowsOfId(d.records, eid)}
StoredLinkVers(d, eid) == {AsU64(r.ver) : r \in RowsOfId(d.links, eid)}

\* a set of versions that is a run 1..n
Contiguous(S) == S = 1..Cardinality(S)

\* the step taken is a call of op (every call increments nrCalls)
Called(op) == nrCalls' # nrCalls /\ last'.op = op

----------------------------------------------------------------------------
(* Properties of the record and link operations, checked under Spec *)

\* C1: record_put(id, r) followed by record_get of the returned reference
\* returns a present record equal to r, for every payload: absent, empty or
\* non-empty.
C1_RecordPutGetRoundTrip ==
    last.op = "record_put" =>
        record_get(db, last.ret.val) = Ok(Some(last.arg))

\* C2 (as stated): every record_put(id, ...) returns the same id and a
\* version strictly greater than every version record_put returned for that
\* id before, over any sequence of record_put and record_del; the first
\* returns version 1.
C2_VersionAboveAllReturned ==
    [][Called("record_put") =>
          /\ last'.ret.val.id = last'.id
          /\ last'.ret.val.ver > recordPutMax[last'.id]
          /\ (recordPutMax[last'.id] = 0 => last'.ret.val.ver = 1)]_vars

\* C2 (amended): every record_put(id, ...) returns the same id and a version
\* one more than the highest version of id stored at the time of the call,
\* hence strictly greater than every stored version of id; it returns
\* version 1 when no version of id is stored.
C2_VersionAboveAllStored ==
    [][Called("record_put") =>
          LET e == last'.ret.val
              S == {x.ver : x \in {y \in recordsPut : y.id = e.id}}
          IN /\ e.id = last'.id
             /\ \A v \in S : e.ver > v
             /\ (S = {} => e.ver = 1)
             /\ (S # {} => (e.ver - 1) \in S)]_vars

\* C2 witness: a record_put on an id that had a stored version has returned
W_C2 == last.op = "record_put" /\ last.ret.val.ver >= 2

\* C3: record_put and link_put are appends: every record or link version
\* stored before the call reads the same after the call.
C3_PutsNeverOverwrite ==
    [][(Called("record_put") \/ Called("link_put")) =>
          \A e \in EIDVs :
              /\ e \in recordsPut => record_get(db', e) = record_get(db, e)
              /\ e \in linksPut => link_get(db', e) = link_get(db, e)]_vars

\* C4 (as stated): in every reachable state the stored versions of each
\* record id and of each link id are a contiguous run 1..n.
C4_VersionsContiguous ==
    \A eid \in Ids : /\ Contiguous(StoredRecordVers(db, eid))
                     /\ Contiguous(StoredLinkVers(db, eid))

\* C4 (amended): every stored version is at least 1, and the stored versions
\* of each record id and of each link id stay a contiguous run 1..n over
\* every call except a delete of a stored version below the highest one.
C4_ContiguousUnlessLowerDeleted ==
    [][\A eid \in Ids :
          LET R == StoredRecordVers(db, eid)
              L == StoredLinkVers(db, eid)
              lower(op, S) == /\ Called(op)
                              /\ last'.id = eid
                              /\ last'.arg.ver \in S
                              /\ \E v \in S : v > last'.arg.ver
          IN /\ \A v \in StoredRecordVers(db', eid) : v >= 1
             /\ \A v \in StoredLinkVers(db', eid) : v >= 1
             /\ (Contiguous(R) /\ ~lower("record_del", R))
                    => Contiguous(StoredRecordVers(db', eid))
             /\ (Contiguous(L) /\ ~lower("link_del", L))
                    => Contiguous(StoredLinkVers(db', eid))]_vars

\* C4 witness: the highest of several versions has been deleted and the run
\* that remains is contiguous
W_C4 ==
    /\ last.op = "record_del" /\ last.ret.val
    /\ StoredRecordVers(db, last.id) = 1..(last.arg.ver - 1)
    /\ last.arg.ver >= 2

\* C5: no id is at the same time the id of a stored record and the id of a
\* stored link.
C5_RecordAndLinkIdsDisjoint ==
    BagToSet(record_get_all_ids(db)) \cap BagToSet(link_get_all_ids(db)) = {}

\* C6 (as stated): for every stored record reference e the first
\* record_del(e) returns true and every later record_del(e) returns false;
\* after the first record_del(e), record_get(e) returns absent and
\* record_get_all_ids no longer lists the id.
C6_DeleteOnceThenGone ==
    [][Called("record_del") =>
          LET e == last'.arg
          IN /\ (e \in recordsPut /\ e \notin recordsDeleted) =>
                    /\ last'.ret.val = TRUE
                    /\ record_get(db', e) = Ok(None)
                    /\ ~BagIn(e.id, record_get_all_ids(db'))
             /\ e \in recordsDeleted => last'.ret.val = FALSE]_vars

\* C6 (amended): record_del(e) returns true exactly when e is stored; right
\* after it record_get(e) returns absent and a repeated record_del(e) would
\* return false; e stays absent until a record_put returns e again; and
\* record_get_all_ids lists the id afterwards exactly when another version
\* of the id is still stored.
C6_DeleteRemovesThatVersion ==
    [][/\ Called("record_del") =>
            LET e == last'.arg
            IN /\ last'.ret.val = (e \in recordsPut)
               /\ record_get(db', e) = Ok(None)
               /\ ~RecordDelRet(db', e)
               /\ BagIn(e.id, record_get_all_ids(db'))
                      <=> (\E x \in recordsPut : x.id = e.id /\ x # e)
       /\ \A e \in EIDVs :
            (/\ record_get(db, e) = Ok(None)
             /\ ~(Called("record_put") /\ last'.ret.val = e))
                => /\ record_get(db', e) = Ok(None)
                   /\ ~RecordDelRet(db', e)]_vars

\* C6 witness: a stored version has been deleted while another version of
\* the same id remains
W_C6 ==
    /\ last.op = "record_del" /\ last.ret.val
    /\ BagIn(last.id, record_get_all_ids(db))

\* C7: right after record_del(e) or link_del(e) has returned, tags_get(e)
\* and attrs_get(e) are empty and no payload row (record_del) or edge row
\* (link_del) of e remains.
C7_DeleteRemovesTagsAttrsRows ==
    /\ last.op \in {"record_del", "link_del"} =>
          /\ tags_get(db, last.arg) = Ok({})
          /\ attrs_get(db, last.arg) = Ok({})
    /\ last.op = "record_del" => RowsOf(db.records, last.arg) = {}
    /\ last.op = "link_del" => RowsOf(db.links, last.arg) = {}

\* C7 witness: a link_del has removed rows of a link version, after a
\* record_del had removed a record version
W_C7 == last.op = "link_del" /\ last.ret.val /\ recordsDeleted # {}

\* C8: record_get_ver_latest(id) returns the highest version of id that was
\* put and not deleted since, and none exactly when there is no such version.
C8_LatestIsHighestStored ==
    \A eid \in Ids :
        LET S == {x.ver : x \in {y \in recordsPut : y.id = eid}}
        IN record_get_ver_latest(db, eid) =
               IF S = {} THEN Ok(None)
               ELSE Ok(Some(EntityIdVer(eid, SetMax(S))))

\* C8 witness: after a delete, an id has several stored versions and
\* another id has none
W_C8 ==
    /\ last.op = "record_del" /\ last.ret.val
    /\ \E eid \in Ids :
          record_get_ver_latest(db, eid) = Ok(Some(EntityIdVer(eid, 2)))
    /\ \E eid \in Ids : record_get_ver_latest(db, eid) = Ok(None)

\* C9: record_get_all_ids returns exactly the ids with a stored record
\* version, each once, and never an id only a link uses; link_get_all_ids
\* likewise for links.
C9_AllIdsExact ==
    /\ record_get_all_ids(db) = SetToBag({e.id : e \in recordsPut})
    /\ link_get_all_ids(db) = SetToBag({e.id : e \in linksPut})

\* C10: link_put(id, l) followed by link_get of the returned reference
\* returns a link with the tags, attributes, from set and to set of l.
C10_LinkPutGetRoundTrip ==
    last.op = "link_put" => link_get(db, last.ret.val) = Ok(Some(last.arg))

\* C11: after link_put(id, l) has returned (id, v), for every link l, also
\* one with empty from and to: link_get_ver_latest(id) returns (id, v),
\* link_get_all_ids lists id, a following link_put(id, ...) would return
\* version v + 1, and link_del((id, v)) would return true.
C11_LinkPutIsVisible ==
    last.op = "link_put" =>
        LET e == last.ret.val
        IN /\ link_get_ver_latest(db, e.id) = Ok(Some(e))
           /\ BagIn(e.id, link_get_all_ids(db))
           /\ LinkPutEidv(db, e.id) = EntityIdVer(e.id, e.ver + 1)
           /\ LinkDelRet(db, e)

\* C12: link_get(e) returns absent for every reference e for which no link
\* version is stored: never put, or removed by link_del.
C12_LinkGetAbsent ==
    \A e \in EIDVs : e \notin linksPut => link_get(db, e) = Ok(None)


\* C31: version 0 stands for the latest version on reads: for every id with
\* a stored version, record_get((id, 0)) returns the same record as
\* record_get of record_get_ver_latest(id), and no put assigns version 0 to
\* a stored version.
C31_VersionZeroReadsLatest ==
    \A eid \in Ids :
        /\ record_get_ver_latest(db, eid).val # None =>
              record_get(db, EntityIdVer(eid, 0))
                = record_get(db, record_get_ver_latest(db, eid).val[1])
        /\ 0 \notin StoredRecordVers(db, eid)

\* C31 (amended): record_get((id, 0)) returns absent for every id, also one
\* with stored versions: version 0 is read like any version that is not
\* stored, and no put assigns version 0 to a stored version.
C31_VersionZeroIsAbsent ==
    /\ \A eid \in Ids :
          /\ record_get(db, EntityIdVer(eid, 0)) = Ok(None)
          /\ 0 \notin StoredRecordVers(db, eid)
    /\ last.op \in {"record_put", "link_put"} => last.ret.val.ver >= 1

\* a record_put has returned version 2 and record_get of that latest
\* version returns a record
W_C31 ==
    /\ last.op = "record_put"
    /\ last.ret.val.ver = 2
    /\ record_get_ver_latest(db, last.id) = Ok(Some(last.ret.val))
    /\ record_get(db, last.ret.val).ok
    /\ record_get(db, last.ret.val).val # None
----------------------------------------------------------------------------
(* Properties of the tag and attribute operations, checked under SpecTags *)

\* C13: tags_put(e, T) followed by tags_get(e) returns exactly T, whatever
\* was put for e before.
C13_TagsPutGetAnyState ==
    last.op = "tags_put" => tags_get(db, last.arg.eidv) = Ok(last.arg.tags)

\* C13 (amended): tags_put(e, T) followed by tags_get(e) returns exactly T
\* when no tag is stored for e at the call; it returns the union of T and
\* the stored tags when they are disjoint from T; it returns an integrity
\* error when a tag of T is already stored or a stored tag is duplicated.
C13_TagsPutAddsToStored ==
    [][Called("tags_put") =>
        LET e == last'.arg.eidv
            T == last'.arg.tags
            before == tags_get(db, e)
            after == tags_get(db', e)
        IN /\ StoredTags(db, e) = {} => after = Ok(T)
           /\ before.ok /\ before.val \cap T = {}
                => after = Ok(before.val \cup T)
           /\ ~before.ok \/ before.val \cap T # {}
                => after = Err("DuplicateTagsInContainer")]_vars

\* a tags_put of a non-empty set on a ref that holds other tags
W_C13 ==
    /\ last.op = "tags_put"
    /\ last.arg.tags # {}
    /\ tags_get(db, last.arg.eidv).ok
    /\ tags_get(db, last.arg.eidv).val \ last.arg.tags # {}

\* C14: attrs_put(e, A) followed by attrs_get(e) returns exactly the map A,
\* whatever was put for e before.
C14_AttrsPutGetAnyState ==
    last.op = "attrs_put" => attrs_get(db, last.arg.eidv) = Ok(last.arg.attrs)

\* C14 (amended): attrs_put(e, A) followed by attrs_get(e) returns exactly A
\* when no attribute is stored for e at the call; it returns the union of A
\* and the stored map when their keys are disjoint; it returns an integrity
\* error when a key of A is already stored or a stored key is duplicated.
C14_AttrsPutAddsToStored ==
    [][Called("attrs_put") =>
        LET e == last'.arg.eidv
            A == last'.arg.attrs
            before == attrs_get(db, e)
            after == attrs_get(db', e)
        IN /\ StoredKeys(db, e) = {} => after = Ok(A)
           /\ before.ok /\ Keys(before.val) \cap Keys(A) = {}
                => after = Ok(before.val \cup A)
           /\ ~before.ok \/ Keys(before.val) \cap Keys(A) # {}
                => after = Err("DuplicateAttrsInContainer")]_vars

\* an attrs_put of a non-empty map on a ref that holds other keys
W_C14 ==
    /\ last.op = "attrs_put"
    /\ last.arg.attrs # {}
    /\ attrs_get(db, last.arg.eidv).ok
    /\ attrs_get(db, last.arg.eidv).val \ last.arg.attrs # {}

\* C15: after tags_del(e), tags_get(e) returns the empty set and after
\* attrs_del(e), attrs_get(e) returns the empty map, whatever was stored for
\* e, duplicated rows included; tags_get and attrs_get of a ref under which
\* nothing was ever written return empty, not an error.
C15_DelThenGetEmpty ==
    /\ last.op = "tags_del" => tags_get(db, last.arg) = Ok({})
    /\ last.op = "attrs_del" => attrs_get(db, last.arg) = Ok({})
    /\ \A e \in EIDVs : e \notin taPut =>
          tags_get(db, e) = Ok({}) /\ attrs_get(db, e) = Ok({})

\* a delete on a ref under which a stored tag or key had been written again,
\* while another ref was never written
W_C15 ==
    /\ last.op \in {"tags_del", "attrs_del"}
    /\ last.arg \in taDup
    /\ Refs \ taPut # {}

\* every step that removes the tag rows (the attribute rows) of e
DeletesTags(e) ==
    /\ nrCalls' # nrCalls
    /\ last'.op \in {"tags_del", "record_del", "link_del"}
    /\ last'.arg = e
DeletesAttrs(e) ==
    /\ nrCalls' # nrCalls
    /\ last'.op \in {"attrs_del", "record_del", "link_del"}
    /\ last'.arg = e

\* C16: a tags_put (attrs_put) that stores a tag (key) already stored for the
\* same ref succeeds, and from then on tags_get (attrs_get) of that ref
\* returns an integrity error, not a deduplicated set (map), until the rows
\* of the ref are deleted.
C16_DuplicatesDetectedOnRead ==
    [][/\ Called("tags_put")
          /\ StoredTags(db, last'.arg.eidv) \cap last'.arg.tags # {}
          => /\ last'.ret.ok
             /\ tags_get(db', last'.arg.eidv)
                  = Err("DuplicateTagsInContainer")
       /\ Called("attrs_put")
          /\ StoredKeys(db, last'.arg.eidv) \cap Keys(last'.arg.attrs) # {}
          => /\ last'.ret.ok
             /\ attrs_get(db', last'.arg.eidv)
                  = Err("DuplicateAttrsInContainer")
       /\ \A e \in EIDVs :
            /\ ~tags_get(db, e).ok /\ ~DeletesTags(e)
                 => tags_get(db', e) = Err("DuplicateTagsInContainer")
            /\ ~attrs_get(db, e).ok /\ ~DeletesAttrs(e)
                 => attrs_get(db', e) = Err("DuplicateAttrsInContainer")]_vars

\* a call other than a delete made while a get of a ref returns the
\* integrity error
W_C16 ==
    /\ last.op \notin {"tags_del", "attrs_del"}
    /\ \E e \in taDup : ~tags_get(db, e).ok
    /\ \E e \in taDup : ~attrs_get(db, e).ok

----------------------------------------------------------------------------
(* Properties of the container, checked under SpecContainer *)

\* the step taken is a lifecycle call op
CalledLife(op) == nrLife' # nrLife /\ last'.op = op

OpenTxs == {i \in DOMAIN txs : txs[i] = "open"}

\* C17: at every moment at most one transaction is open against the
\* container, and every transaction that is no longer open was ended by
\* commit or by rollback.
C17_OneOpenEndedByCommitOrRollback ==
    /\ Cardinality(OpenTxs) <= 1
    /\ \A i \in DOMAIN txs : txs[i] \in {"open", "committed", "rolledback"}

\* C17 (amended): at most one transaction is open at every moment; a
\* transaction is ended once, by commit, by rollback or by being dropped
\* without either, and stays ended; calls are made on an open transaction
\* only.
C17_OneOpenEndedOnce ==
    [][/\ Cardinality({i \in DOMAIN txs' : txs'[i] = "open"}) <= 1
       /\ \A i \in DOMAIN txs :
            /\ txs[i] # "open" => txs'[i] = txs[i]
            /\ txs[i] = "open" /\ txs'[i] # "open"
                 => /\ txs'[i] \in {"committed", "rolledback", "dropped"}
                    /\ last'.op \in {"commit", "rollback", "drop"}
                    /\ last'.id = i
       /\ nrCalls' # nrCalls => TxOpen /\ txs' = txs
       /\ CalledLife("commit") \/ CalledLife("rollback")
            => txs[last'.id] = "open"]_vars

\* a second transaction is open after the first was dropped and a call was
\* made on it
W_C17 ==
    /\ Len(txs) >= 2
    /\ txs[1] = "dropped"
    /\ txs[Len(txs)] = "open"
    /\ last.op = "record_put"

\* C18: create on a container whose schema exists returns an error and
\* leaves the schema and its data unchanged; destroy on a container without
\* schema returns an error; a successful destroy leaves no table, and create
\* after it succeeds and yields an empty container.
C18_ContainerLifecycle ==
    [][/\ CalledLife("create") /\ schema # {}
            => ~last'.ret.ok /\ schema' = schema /\ committed' = committed
       /\ CalledLife("create") /\ schema = {}
            => last'.ret.ok /\ schema' = AllTables /\ committed' = EmptyDb
       /\ CalledLife("destroy") /\ schema = {}
            => ~last'.ret.ok /\ schema' = schema
       /\ CalledLife("destroy") /\ last'.ret.ok => schema' = {}]_vars

\* create has failed on a container that holds a committed record
W_C18 ==
    /\ last.op = "create"
    /\ ~last.ret.ok
    /\ committed.records # EmptyBag


\* what the reads of a transaction return on the tables d
Observed(d) ==
    [e \in EIDVs |-> <<record_get(d, e), link_get(d, e), tags_get(d, e),
                       attrs_get(d, e)>>]
ObservedIds(d) ==
    <<record_get_all_ids(d), link_get_all_ids(d),
      [eid \in Ids |-> <<record_get_ver_latest(d, eid),
                         link_get_ver_latest(d, eid)>>]>>

\* C34: after commit, every write made in the transaction is observed by
\* the transactions begun later on the container, and the reads inside a
\* transaction observe its own uncommitted writes.
C34_CommittedWritesObserved ==
    [][/\ CalledLife("commit") =>
            /\ Observed(committed') = Observed(db)
            /\ ObservedIds(committed') = ObservedIds(db)
       /\ CalledLife("begin_transaction") =>
            /\ Observed(db') = Observed(committed)
            /\ ObservedIds(db') = ObservedIds(committed)
       /\ committed' # committed
            => last'.op \in {"commit", "create", "destroy"}
       /\ Called("record_put") /\ last'.ret.ok =>
            record_get_ver_latest(db', last'.id) = Ok(Some(last'.ret.val))
       /\ Called("record_del") => record_get(db', last'.arg) = Ok(None)]_vars

\* a transaction was begun after a commit and observes a committed record
\* that a transaction before had put and one it had deleted
W_C34 ==
    /\ last.op = "begin_transaction"
    /\ \E i \in DOMAIN txs : txs[i] = "committed"
    /\ db.records # EmptyBag
    /\ recordsDeleted # {}

\* C35: after rollback, or after a transaction is dropped without commit,
\* the container is in the state of the matching begin_transaction: no put
\* and no delete made in the transaction is visible to a later transaction.
C35_RolledBackWritesGone ==
    [][/\ TxOpen /\ ~CalledLife("commit") => committed' = committed
       /\ CalledLife("rollback") \/ CalledLife("drop") =>
            /\ db' = committed
            /\ \A i \in DOMAIN txs : txs'[i] # "open"
       /\ CalledLife("begin_transaction") =>
            /\ Observed(db') = Observed(committed)
            /\ ObservedIds(db') = ObservedIds(committed)]_vars

\* a transaction that had put a record was rolled back, after one that was
\* dropped, and no record is left
W_C35 ==
    /\ last.op = "rollback"
    /\ \E i \in DOMAIN txs : txs[i] = "dropped"
    /\ recordsPut # {}
    /\ nrCalls = MaxPuts
    /\ db = EmptyDb
----------------------------------------------------------------------------
(* Properties of the search queries, checked under SpecSearch *)

\* every tag substring is contained in at least one of the tags
EveryTagSubstringMatches(q, ta) ==
    \A t \in q.tags.tag_substrings : \E tag \in ta.tags : Contains(tag, t)

\* every key, value and key-value filter is satisfied by at least one of
\* the attribute pairs
EveryAttributeFilterMatches(q, ta) ==
    /\ \A k \in q.attributes.key_substrings :
          \E a \in ta.attrs : Contains(a[1], k)
    /\ \A v \in q.attributes.value_substrings :
          \E a \in ta.attrs : Contains(a[2], v)
    /\ \A kv \in q.attributes.kv_substrings :
          \E a \in ta.attrs : Contains(a[1], kv[1]) /\ Contains(a[2], kv[2])

\* C19: a record passes a records-and-links query if and only if every tag
\* substring is contained in one of its tags, every attribute filter is
\* satisfied by one of its attribute pairs, and its payload is absent, or is
\* not valid UTF-8, or contains every one of the query's text substrings.
C19_RecordPassesIffEveryText ==
    last.op = "check_record" =>
        last.ret.val =
            (/\ EveryTagSubstringMatches(query, entity.val.ta)
             /\ EveryAttributeFilterMatches(query, entity.val.ta)
             /\ \/ entity.val.data = None
                \/ ~Utf8Valid(entity.val.data[1])
                \/ \A s \in query.text_substrings :
                      Contains(entity.val.data[1], s))

SatisfiesToken(e, s) ==
    \/ \E tag \in e.val.ta.tags : Contains(tag, s)
    \/ \E a \in e.val.ta.attrs : Contains(a[1], s) \/ Contains(a[2], s)
    \/ /\ e.kind = "record"
       /\ e.val.data # None
       /\ Utf8Valid(e.val.data[1])
       /\ Contains(e.val.data[1], s)

\* C28: in a records-and-links query a token that does not start with "#"
\* is matched against the tags, the attribute keys, the attribute values
\* and the record payload: an entity satisfies the token when the token is
\* a substring of one of its tags, of one of its keys or values, or of the
\* payload text. Stated for the queries made of one text token.
C28_TextMatchedAgainstTagsAttributesPayload ==
    /\ last.op \in {"check_record", "check_link"}
    /\ query.tags.tag_substrings = {}
    /\ query.attributes.key_substrings = {}
    /\ query.attributes.value_substrings = {}
    /\ query.attributes.kv_substrings = {}
    /\ Cardinality(query.text_substrings) = 1
    => last.ret.val = \A s \in query.text_substrings : SatisfiesToken(entity, s)
----------------------------------------------------------------------------
(* Properties of SearchQuery::new, checked under SpecParse *)

\* the whitespace-separated tokens of a string, in order
TokenStarts(s) ==
    {i \in DOMAIN s : ~IsWhitespace(s[i]) /\ (i = 1 \/ IsWhitespace(s[i - 1]))}
TokenAt(s, i) ==
    SubSeq(s, i, CHOOSE j \in i..Len(s) :
                    /\ j = Len(s) \/ IsWhitespace(s[j + 1])
                    /\ \A k \in i..j : ~IsWhitespace(s[k]))
Tokens(s) ==
    LET S == TokenStarts(s)
        nth(k) == CHOOSE i \in S : Cardinality({j \in S : j < i}) = k - 1
    IN [k \in 1..Cardinality(S) |-> TokenAt(s, nth(k))]
TokenSet(s) == {TokenAt(s, i) : i \in TokenStarts(s)}

MapSeq(F(_), seq) == [i \in DOMAIN seq |-> F(seq[i])]

\* a token with one leading "#" removed when it has one
StripOne(t) == IF t # <<>> /\ t[1] = Hash THEN Tail(t) ELSE t
HasEquals(w) == \E i \in DOMAIN w : w[i] = Equals
\* the parts of w before and after its first "="
FirstEquals(w) ==
    CHOOSE i \in DOMAIN w : w[i] = Equals /\ \A j \in 1..(i - 1) : w[j] # Equals
KeyPart(w) == SubSeq(w, 1, FirstEquals(w) - 1)
ValuePart(w) == SubSeq(w, FirstEquals(w) + 1, Len(w))
KvPart(w) == <<KeyPart(w), ValuePart(w)>>

\* the attribute filter a word with "=" stands for
IsKeyWord(w) == HasEquals(w) /\ ValuePart(w) = <<>>
IsValueWord(w) == HasEquals(w) /\ ValuePart(w) # <<>> /\ KeyPart(w) = <<>>
IsKvWord(w) == HasEquals(w) /\ ValuePart(w) # <<>> /\ KeyPart(w) # <<>>

Parsed == last.op = "SearchQuery_new"

\* C22: SearchQuery::new gives a Tags query if some token equals "#", also
\* when a "#=" token is present; otherwise an Attributes query if some token
\* equals "#="; otherwise a records-and-links query.
C22_ClassificationPrecedence ==
    Parsed =>
        /\ ~last.ret.val.panic
        /\ last.ret.val.form =
              IF <<Hash>> \in TokenSet(queryString) THEN "Tags"
              ELSE IF <<Hash, Equals>> \in TokenSet(queryString)
              THEN "Attributes"
              ELSE "RecordsAndLinks"

\* a query string with both a "#" and a "#=" token was parsed
W_C22 ==
    /\ Parsed
    /\ <<Hash>> \in TokenSet(queryString)
    /\ <<Hash, Equals>> \in TokenSet(queryString)
    /\ last.ret.val.form = "Tags"

IsHashed(t) == t[1] = Hash
IsTagToken(t) == IsHashed(t) /\ ~HasEquals(Tail(t))
IsKeyToken(t) == IsHashed(t) /\ IsKeyWord(Tail(t))
IsValueToken(t) == IsHashed(t) /\ IsValueWord(Tail(t))
IsKvToken(t) == IsHashed(t) /\ IsKvWord(Tail(t))
IsTextToken(t) == ~IsHashed(t)
KeyOfToken(t) == KeyPart(Tail(t))
ValueOfToken(t) == ValuePart(Tail(t))
KvOfToken(t) == KvPart(Tail(t))

\* C23: in a records-and-links query every token yields exactly one
\* criterion: with "#" and "=", a key filter if the value part is empty, a
\* value filter if the key part is empty, a kv filter otherwise, split on
\* the first "="; with "#" and no "=", a tag substring; every other token,
\* also one with "=", a text substring.
C23_RecordsAndLinksTokens ==
    Parsed /\ last.ret.val.form = "RecordsAndLinks" =>
        LET r == last.ret.val
            tokens == Tokens(queryString)
        IN /\ ~r.panic
           /\ r.tag_substrings = MapSeq(Tail, SelectSeq(tokens, IsTagToken))
           /\ r.key_substrings
                = MapSeq(KeyOfToken, SelectSeq(tokens, IsKeyToken))
           /\ r.value_substrings
                = MapSeq(ValueOfToken, SelectSeq(tokens, IsValueToken))
           /\ r.kv_substrings
                = MapSeq(KvOfToken, SelectSeq(tokens, IsKvToken))
           /\ r.text_substrings = SelectSeq(tokens, IsTextToken)
           /\ Len(r.tag_substrings) + Len(r.key_substrings)
                + Len(r.value_substrings) + Len(r.kv_substrings)
                + Len(r.text_substrings) = Len(tokens)

\* a query with a kv filter and a text substring that holds "="
W_C23 ==
    /\ Parsed
    /\ last.ret.val.form = "RecordsAndLinks"
    /\ last.ret.val.kv_substrings # <<>>
    /\ \E i \in DOMAIN last.ret.val.text_substrings :
          HasEquals(last.ret.val.text_substrings[i])

\* the filters of the tokens of an attributes query, by the claim's rule
NoEqualsWord(w) == ~HasEquals(w)
AttributeKeyOf(w) == IF HasEquals(w) THEN KeyPart(w) ELSE w
AttributeValueOf(w) == IF HasEquals(w) THEN ValuePart(w) ELSE w
YieldsKey(w) == IsKeyWord(w) \/ NoEqualsWord(w)
YieldsValue(w) == IsValueWord(w) \/ NoEqualsWord(w)

NotHashEquals(t) == t # <<Hash, Equals>>
NotHashEqualsNorEquals(t) == t # <<Hash, Equals>> /\ t # <<Equals>>

AttributesFiltersOf(r, words) ==
    /\ ~r.panic
    /\ r.tag_substrings = <<>> /\ r.text_substrings = <<>>
    /\ r.key_substrings = MapSeq(AttributeKeyOf, SelectSeq(words, YieldsKey))
    /\ r.value_substrings
         = MapSeq(AttributeValueOf, SelectSeq(words, YieldsValue))
    /\ r.kv_substrings = MapSeq(KvPart, SelectSeq(words, IsKvWord))

\* C24: in an attributes query each token other than "#=", with one leading
\* "#" removed and split on the first "=", yields a key filter when the
\* value is empty, a value filter when the key is empty, a kv filter when
\* both are non-empty, a key and a value filter when it has no "="; only
\* "#=" tokens yield no filter.
C24_AttributesTokens ==
    Parsed /\ last.ret.val.form = "Attributes" =>
        AttributesFiltersOf(last.ret.val,
            MapSeq(StripOne, SelectSeq(Tokens(queryString), NotHashEquals)))

\* C24 (amended): as C24, for each token other than "#=" and "="; the two
\* yield no filter.
C24_AttributesTokensButEquals ==
    Parsed /\ last.ret.val.form = "Attributes" =>
        AttributesFiltersOf(last.ret.val,
            MapSeq(StripOne,
                   SelectSeq(Tokens(queryString), NotHashEqualsNorEquals)))

\* an attributes query with a "=" token and a token that yields filters
W_C24 ==
    /\ Parsed
    /\ last.ret.val.form = "Attributes"
    /\ <<Equals>> \in TokenSet(queryString)
    /\ last.ret.val.key_substrings # <<>>

NotHash(t) == t # <<Hash>>

\* C25: in a tags query the tag substrings are the tokens other than "#",
\* in order, each with exactly one leading "#" removed when it has one;
\* none is empty; only "#" tokens give the empty list.
C25_TagsTokens ==
    Parsed /\ last.ret.val.form = "Tags" =>
        LET r == last.ret.val
        IN /\ r.tag_substrings
                = MapSeq(StripOne, SelectSeq(Tokens(queryString), NotHash))
           /\ \A i \in DOMAIN r.tag_substrings : r.tag_substrings[i] # <<>>
           /\ TokenSet(queryString) = {<<Hash>>} => r.tag_substrings = <<>>

\* a tags query with a token "##..." and a token without "#"
W_C25 ==
    /\ Parsed
    /\ last.ret.val.form = "Tags"
    /\ \E i \in DOMAIN last.ret.val.tag_substrings :
          last.ret.val.tag_substrings[i][1] = Hash
    /\ \E t \in TokenSet(queryString) : t[1] # Hash



\* C36: SearchQuery::new never panics: for every query string no assertion
\* fails (no key filter with an empty key; in the records-and-links branch
\* no token that is empty, "#" or "#=") and no slice around "=" is out of
\* bounds.
C36_NewNeverPanics ==
    Parsed =>
        /\ ~last.ret.val.panic
        /\ \A i \in DOMAIN last.ret.val.key_substrings :
              last.ret.val.key_substrings[i] # <<>>
        /\ last.ret.val.form = "RecordsAndLinks" =>
              TokenSet(queryString) \cap {<<>>, <<Hash>>, <<Hash, Equals>>}
                = {}

\* an attributes query with one key filter, made of a word that ends in "="
W_C36 ==
    /\ Parsed
    /\ last.ret.val.form = "Attributes"
    /\ Len(last.ret.val.key_substrings) = 1
    /\ last.ret.val.value_substrings = <<>>
----------------------------------------------------------------------------
(* Properties of search, checked under SpecSearchAll *)

Searched == last.op = "search"

C26_TagsQueryResult ==
    Searched /\ last.arg.form = "Tags" =>
        LET listed == Range(last.arg.tag_substrings)
            tags == UNION {e.val.ta.tags : e \in contents}
        IN last.ret.val =
              {SearchResultTag(t) :
                 t \in {x \in tags :
                          listed = {} \/ \E s \in listed : Contains(x, s)}}

\* a tags query with two substrings has returned some tags and not others
W_C26 ==
    /\ Searched
    /\ last.arg.form = "Tags"
    /\ Len(last.arg.tag_substrings) = 2
    /\ last.ret.val # {}
    /\ \E t \in ContainerTags(contents) : SearchResultTag(t) \notin last.ret.val

\* C27: the result of an attributes query is the set of the pairs of the
\* container matched by at least one filter: a key filter matches the pairs
\* whose key contains it, a value filter those whose value contains it, a
\* kv filter those whose key contains its key and whose value contains its
\* value; with no filter it is every pair of the container.
C27_AttributesQueryResult ==
    Searched /\ last.arg.form = "Attributes" =>
        LET keys == Range(last.arg.key_substrings)
            values == Range(last.arg.value_substrings)
            kvs == Range(last.arg.kv_substrings)
            pairs == UNION {e.val.ta.attrs : e \in contents}
            matched(a) ==
                \/ \E k \in keys : Contains(a[1], k)
                \/ \E v \in values : Contains(a[2], v)
                \/ \E kv \in kvs : Contains(a[1], kv[1]) /\ Contains(a[2], kv[2])
        IN last.ret.val =
              {SearchResultAttribute(a[1], a[2]) :
                 a \in {x \in pairs :
                          (keys = {} /\ values = {} /\ kvs = {}) \/ matched(x)}}

\* an attributes query with a kv filter has returned some pairs and not
\* others
W_C27 ==
    /\ Searched
    /\ last.arg.form = "Attributes"
    /\ last.arg.kv_substrings # <<>>
    /\ last.ret.val # {}
    /\ \E a \in ContainerAttributes(contents) :
          SearchResultAttribute(a[1], a[2]) \notin last.ret.val


----------------------------------------------------------------------------
(* Properties of the ids, checked under SpecIds *)

\* the step taken is a put without an id
PutWithoutId ==
    /\ nrCalls' # nrCalls
    /\ last'.op \in {"record_put", "link_put"}
    /\ last'.arg = None

----------------------------------------------------------------------------
(* Properties of the request handlers, checked under SpecWeb *)

\* C32: with several worker threads, every handler takes the mutex of the
\* shared state before begin_transaction and holds it until its transaction
\* is committed or dropped, on every exit path; no two handlers have a
\* transaction open at the same time and no transaction stays open after
\* its handler has returned.
C32_HandlersSerialized ==
    /\ Cardinality(OpenTxs) <= 1
    /\ \A w \in Workers : handlers[w].pc # "idle" => mutex = w
    /\ \A i \in OpenTxs :
          \E w \in Workers : /\ handlers[w].tx = i
                             /\ handlers[w].pc = "tx"
                             /\ mutex = w
    /\ \A w \in Workers :
          handlers[w].pc = "idle" => handlers[w].tx \notin OpenTxs

\* a worker has the second transaction open while another worker is idle;
\* the first transaction was dropped by a handler that has returned
W_C32 ==
    /\ Len(txs) = 2
    /\ txs[1] = "dropped"
    /\ \E w \in Workers : handlers[w].pc = "tx" /\ handlers[w].tx = 2
    /\ \E w \in Workers : handlers[w].pc = "idle"

\* C33: a caller that gets an error from an operation on a transaction rolls
\* the transaction back and does not commit it: put_record never commits a
\* transaction in which one of its record_put calls has failed.
C33_NoCommitAfterFailedPut ==
    [][CalledLife("commit") => ~handlers[last'.arg].failed]_vars


----------------------------------------------------------------------------
(* Rows, frames and link endpoints, checked under Spec *)

\* C37: in every state reached through record_put and record_del, the
\* records table holds at most one row for each (id, version), so
\* record_get never returns the too-many-rows integrity error.
C37_OneRowPerRecordVersion ==
    /\ \A r \in DOMAIN db.records :
          /\ CopiesIn(r, db.records) = 1
          /\ \A x \in DOMAIN db.records :
                (x.id_lo = r.id_lo /\ x.id_hi = r.id_hi /\ x.ver = r.ver)
                    => x = r
    /\ \A e \in EIDVs : record_get(db, e) # Err("TooManyRowsForARecord")

\* a record_put has written again a version that had been deleted
W_C37 ==
    /\ last.op = "record_put"
    /\ last.ret.val \in recordsDeleted
    /\ NrRows(db.records, RowsOf(db.records, last.ret.val)) = 1

\* C38: a record_del(e) or link_del(e) that returns false leaves the
\* container unchanged: every tags_get, attrs_get, record_get and link_get
\* returns after the call what it returned before.
C38_FailedDeleteChangesNothing ==
    [][(Called("record_del") \/ Called("link_del")) /\ ~last'.ret.val
          => Observed(db') = Observed(db)]_vars

\* the endpoints stored for the link l: <<is_to, reference>>
Endpoints(d, l) ==
    {<<r.is_to # 0,
       EntityIdVer_new(AsU64(r.r_id_lo), AsU64(r.r_id_hi), AsU64(r.r_ver))>> :
        r \in RowsOf(d.links, l)}
Referenced(d, e) ==
    \E l \in EIDVs : \E p \in Endpoints(d, l) : p[2] = e

\* C39: link endpoints carry no referential constraint: link_put succeeds
\* whether or not the endpoints exist; record_del of a stored record
\* version that a stored link refers to succeeds and returns true; link_get
\* of the link returns the same from and to sets afterwards.
C39_NoReferentialConstraint ==
    [][/\ Called("link_put") =>
            /\ last'.ret.ok
            /\ Endpoints(db', last'.ret.val)
                 = {<<FALSE, r>> : r \in last'.arg.from}
                     \cup {<<TRUE, r>> : r \in last'.arg.to}
       /\ Called("record_del") =>
            /\ last'.arg \in recordsPut /\ Referenced(db, last'.arg)
                 => last'.ret.ok /\ last'.ret.val
            /\ \A l \in EIDVs :
                 /\ Endpoints(db', l) = Endpoints(db, l)
                 /\ link_get(db, l).ok =>
                      /\ link_get(db', l).ok
                      /\ link_get(db', l).val[1].from
                           = link_get(db, l).val[1].from
                      /\ link_get(db', l).val[1].to
                           = link_get(db, l).val[1].to]_vars

\* a record version was deleted that a stored link still refers to
W_C39 ==
    /\ last.op = "record_del"
    /\ last.ret.val
    /\ record_get(db, last.arg) = Ok(None)
    /\ \E l \in linksPut :
          /\ link_get(db, l).ok
          /\ last.arg \in link_get(db, l).val[1].from

====
